---------------------------- MODULE Spec2Model ----------------------------
(***************************************************************************)
(* Model of the OpenTag native kernel (otkernel/~native/system.c): the     *)
(* event manager, the idle-time scan/beacon events, the radio I/O events   *)
(* with their driver callbacks, and the CSMA-CA flow control.              *)
(*                                                                         *)
(* Build modelled: ENDPOINT, SUBCONTROLLER/GATEWAY and BEACONS features    *)
(* enabled, SYS_RECEIVE, SYS_SESSION, SYS_FLOOD and CAPI enabled,          *)
(* EXTERNAL_EVENT and RTC_SCHEDULER disabled, RF RXTIMER and TXTIMER       *)
(* disabled (software-managed timing), watchdogs disabled, all signal      *)
(* callbacks left at their null defaults, little-endian host.              *)
(*                                                                         *)
(* The persistent structures `sys` and `dll` keep their C layout as        *)
(* records.  The session module and the radio driver are not part of       *)
(* system.c; they are modelled by their contracts.  Every kernel routine   *)
(* is an operator from a "world" record (sys, dll, session, radio, vl,     *)
(* calls) to the world after the routine, so that a handler is the         *)
(* composition of the routines it calls, in the order of the C code.       *)
(***************************************************************************)
EXTENDS Integers, Naturals, Sequences, FiniteSets, TLC

(***************************************************************************)
(* Bounds of the model (not program constants).                            *)
(***************************************************************************)
MaxElapsed == 1     \* largest number of ticks between two dispatcher entries
MaxLag     == 1     \* counters are clocked down no further than -MaxLag
MaxTimeout    == 2  \* largest contention period Tc an application asks for
MaxHoldCycle  == 3  \* hold scans are explored while hold_cycle is below this
MaxRedundants == 2  \* TX completions are explored while redundants is at most this
MaxEvents     == 1  \* API calls and received frames explored in one behaviour

(***************************************************************************)
(* Program constants.                                                      *)
(***************************************************************************)
SYS_MUTEX_RADIO_LISTEN == 1
SYS_MUTEX_RADIO_DATA   == 2
SYS_MUTEX_PROCESSING   == 4

M2_MACIDLE_OFF   == 0
M2_MACIDLE_SLEEP == 1
M2_MACIDLE_HOLD  == 2

M2_SET_ENDPOINT      == 256
M2_SET_SUBCONTROLLER == 512
M2_SET_CLASSMASK     == 1792

M2_NETSTATE_REQTX      == 0
M2_NETSTATE_RESPTX     == 16
M2_NETSTATE_REQRX      == 32
M2_NETSTATE_RESPRX     == 48
M2_NETSTATE_TMASK      == 48
M2_NETSTATE_RESP       == 16
M2_NETFLAG_FLOOD       == 64
M2_NETFLAG_SCRAP       == 128
M2_NETSTATE_INIT       == 8
M2_NETSTATE_DSDIALOG   == 4
M2_NETFLAG_FIRSTRX     == 2
M2_NETSTATE_CONNECTED  == 1
M2_NETSTATE_ASSOCIATED == 1

M2_CSMACA_NA2P   == 0
M2_CSMACA_A2P    == 64
M2_CSMACA_MACCA  == 24
M2_CSMACA_NOCSMA == 4

M2_PARAM_BEACON_TCA == 2
SESSION_DEPTH       == 3

RM2_ERR_KILL       == -1
RM2_ERR_CCAFAIL    == -2
RM2_ERR_BADCHANNEL == -3
RM2_ERR_TIMEOUT    == -4
CSMA_SUCCESS       == -1

\* indices of the idle-time events in sys.evt.idle[]
HSS == 0
SSS == 1
BTS == 2
IDLE_EVENTS == 3

(***************************************************************************)
(* Task_Index                                                              *)
(***************************************************************************)
TASK_idle       == 0
TASK_processing == 1
TASK_radio      == 2
TASK_session    == 3
TASK_hold       == 4
TASK_sleep      == 5
TASK_beacon     == 6

(***************************************************************************)
(* Bitwise arithmetic on unsigned values.                                  *)
(***************************************************************************)
RECURSIVE BitAnd(_, _)
BitAnd(a, b) ==
    IF a = 0 \/ b = 0 THEN 0
    ELSE ((a % 2) * (b % 2)) + 2 * BitAnd(a \div 2, b \div 2)

RECURSIVE BitOr(_, _)
BitOr(a, b) ==
    IF a = 0 THEN b
    ELSE IF b = 0 THEN a
    ELSE (IF (a % 2) + (b % 2) > 0 THEN 1 ELSE 0) + 2 * BitOr(a \div 2, b \div 2)

RECURSIVE BitXor(_, _)
BitXor(a, b) ==
    IF a = 0 THEN b
    ELSE IF b = 0 THEN a
    ELSE (((a % 2) + (b % 2)) % 2) + 2 * BitXor(a \div 2, b \div 2)

\* a & ~m
BitClear(a, m) == a - BitAnd(a, m)

Min(a, b) == IF a < b THEN a ELSE b
Max(a, b) == IF a > b THEN a ELSE b

\* x -= elapsed on a signed tick counter; the model stops counting at -MaxLag
ClockDown(x, elapsed) == Max(x - elapsed, 0 - MaxLag)


(***************************************************************************)
(* Veelite file store: an ISF is a sequence of bytes.  vl_read returns the *)
(* two bytes at an offset as a host-order (little-endian) ot_u16.          *)
(***************************************************************************)
ByteAt(file, offset) == file[offset + 1]

vl_read(file, offset) == ByteAt(file, offset) + 256 * ByteAt(file, offset + 1)

\* (x << 8) | (x >> 8) on an ot_u16
Swap16(x) == ((x % 256) * 256) + (x \div 256)

\* ISF 0 (network settings) for an active-settings word, b_attempts and the
\* two bytes of hold_limit
NetworkSettingsISF(active, b_attempts, hl0, hl1) ==
    << 0, 0, 0, 0, active % 256, active \div 256, 0, b_attempts, hl0, hl1 >>

\* hold scan sequence: a foreground scan then a background scan
HoldScanISF  == << 16, 1, 0, 1,   16, 129, 0, 1 >>
\* sleep scan sequence: a background scan then a foreground scan
SleepScanISF == << 16, 129, 0, 1,   16, 1, 0, 1 >>
\* beacon transmit sequence: one beacon period
BeaconISF    == << 16, 5, 0, 0, 0, 0, 0, 1 >>

\* a hold scan sequence of background scans only
HoldFloodScanISF == << 16, 129, 0, 1,   16, 129, 0, 1 >>

\* the devices explored: active class, b_attempts, hold_limit, the hold scan
\* sequence, and how many API calls and received frames a behaviour of the
\* device is explored with (the endpoints without beacons one deeper than the
\* others)
Devices ==
    { [ active |-> M2_SET_ENDPOINT, b_attempts |-> 0, hold_limit |-> 2,
        hold_scan |-> HoldFloodScanISF, events |-> MaxEvents + 1 ],
      [ active |-> M2_SET_ENDPOINT, b_attempts |-> 0, hold_limit |-> 1,
        hold_scan |-> HoldScanISF, events |-> MaxEvents + 1 ],
      [ active |-> M2_SET_ENDPOINT, b_attempts |-> 1, hold_limit |-> 1,
        hold_scan |-> HoldScanISF, events |-> MaxEvents ],
      [ active |-> M2_SET_SUBCONTROLLER, b_attempts |-> 1, hold_limit |-> 1,
        hold_scan |-> HoldScanISF, events |-> MaxEvents ],
      [ active |-> 0, b_attempts |-> 0, hold_limit |-> 1,
        hold_scan |-> HoldScanISF, events |-> MaxEvents ] }

ConfigFiles(d) ==
    [ network_settings         |->
          NetworkSettingsISF(d.active, d.b_attempts, d.hold_limit, 0),
      hold_scan_sequence       |-> d.hold_scan,
      sleep_scan_sequence      |-> SleepScanISF,
      beacon_transmit_sequence |-> BeaconISF ]

(***************************************************************************)
(* State.                                                                  *)
(***************************************************************************)
VARIABLES
    sys,        \* sys_struct: mutex, evt.RFA, evt.idle[HSS,SSS,BTS], hold_cycle
    dll,        \* m2dll_struct: idle_state, comm, netconf
    session,    \* session stack, top first
    radio,      \* state of the radio driver
    vl,         \* the ISF files the kernel reads
    events,     \* API calls and received frames still to be explored
    hold_scans, \* history: hold scans run since hold_cycle was last zeroed
    panicked,   \* history: sys_panic has run since the last sys_refresh
    last        \* the operation that produced this state, with its inputs,
                \* the task it dispatched and the routines it called

vars == << sys, dll, session, radio, vl, events, hold_scans, panicked, last >>

\* the world a routine works on; `calls` collects the routines called
World == [ sys |-> sys, dll |-> dll, session |-> session, radio |-> radio,
           vl |-> vl, hold_scans |-> hold_scans, calls |-> << >> ]

Called(w, name) == [w EXCEPT !.calls = Append(@, name)]

HasCalled(name) == \E i \in DOMAIN last.calls : last.calls[i] = name

CountCalls(name) == Cardinality({ i \in DOMAIN last.calls : last.calls[i] = name })

\* memory as the C runtime zeroes it before sys_init()
ZeroEvent == [ event_no |-> 0, cursor |-> 0, nextevent |-> 0 ]

ZeroSys ==
    [ mutex |-> 0,
      watchdog |-> 0,
      evt   |-> [ RFA        |-> [ event_no |-> 0, nextevent |-> 0 ],
                  idle       |-> [ i \in 0 .. (IDLE_EVENTS - 1) |-> ZeroEvent ],
                  hold_cycle |-> 0,
                  adv_time   |-> 0 ] ]

ZeroDll ==
    [ idle_state |-> 0,
      comm    |-> [ tc |-> 0, tca |-> 0, rx_timeout |-> 0, redundants |-> 0,
                    csmaca_params |-> 0, tx_channels |-> 0,
                    rx_channels |-> 0, tx_chanlist |-> 0, rx_chanlist |-> 0,
                    scratch |-> [ k \in 0 .. 1 |-> 0 ] ],
      netconf |-> [ subnet |-> 0, b_subnet |-> 0, dd_flags |-> 0,
                    b_attempts |-> 0, active |-> 0, hold_limit |-> 0 ] ]

(***************************************************************************)
(* Session module (session.c), by its contract: a bounded stack ordered    *)
(* by counter, the top session being the next one to service.              *)
(***************************************************************************)
NewSession(wait, netstate, channel) ==
    [ counter |-> wait, netstate |-> netstate, channel |-> channel,
      subnet |-> 0, flags |-> 0 ]

RECURSIVE InsertSession(_, _)
InsertSession(stack, s) ==
    IF stack = << >> \/ s.counter <= Head(stack).counter
    THEN << s >> \o stack
    ELSE << Head(stack) >> \o InsertSession(Tail(stack), s)

\* session_new() returns NULL when the stack is full and the session is not
\* ad-hoc (wait == 0); an ad-hoc session takes the place of the last one
session_new_fails(w, wait) ==
    /\ wait /= 0
    /\ Len(w.session) >= SESSION_DEPTH - 1

session_new(w, wait, netstate, channel) ==
    IF session_new_fails(w, wait) THEN w
    ELSE LET room == IF Len(w.session) >= SESSION_DEPTH
                     THEN SubSeq(w.session, 1, SESSION_DEPTH - 1)
                     ELSE w.session
         IN  [w EXCEPT !.session =
                  InsertSession(room, NewSession(wait, netstate, channel))]

session_init(w) == [w EXCEPT !.session = << >>]

session_count(w) == Len(w.session) - 1

session_pop(w) ==
    IF w.session = << >> THEN w ELSE [w EXCEPT !.session = Tail(@)]

\* marks the top session inactive (no longer a new dialog), keeps the rest
session_drop(w) ==
    IF w.session = << >> THEN w
    ELSE [w EXCEPT !.session[1].netstate = BitClear(@, M2_NETSTATE_INIT)]

\* removes the expired sessions: counter run out and already scrapped
session_flush(w) ==
    [w EXCEPT !.session =
        SelectSeq(@, LAMBDA s : ~(s.counter = 0 /\ s.netstate >= M2_NETFLAG_SCRAP))]

\* clocks every session counter down to no less than 0
session_clock(w, elapsed) ==
    [w EXCEPT !.session =
        [ i \in DOMAIN @ |-> [ @[i] EXCEPT !.counter = Max(@ - elapsed, 0) ] ]]

\* session_refresh() reports whether the top session is due
session_ready(w, elapsed) ==
    /\ w.session /= << >>
    /\ session_clock(w, elapsed).session[1].counter = 0

session_netstate(w) ==
    IF w.session = << >> THEN M2_NETFLAG_SCRAP ELSE w.session[1].netstate

(***************************************************************************)
(* Radio driver, by its contract.  The driver is asleep, idle, armed for   *)
(* RX, contending (CSMA), transmitting, holding a prepared resend, or      *)
(* stopped by rm2_kill()/rm2_rxtimeout_isr() with the error callback of    *)
(* the stopped operation still to be delivered.                            *)
(***************************************************************************)
RadioStates ==
    { "sleep", "idle", "rx_bf", "rx_ff", "csma_bf", "csma_ff", "tx_bf",
      "tx_ff", "resend", "stop_bscan", "stop_frx", "stop_btx", "stop_ftx" }

radio_sleep(w) == [Called(w, "radio_sleep") EXCEPT !.radio = "sleep"]

radio_gag(w) == Called(w, "radio_gag")

rm2_rxinit_bf(w) == [Called(w, "rm2_rxinit_bf") EXCEPT !.radio = "rx_bf"]

rm2_rxinit_ff(w) == [Called(w, "rm2_rxinit_ff") EXCEPT !.radio = "rx_ff"]

rm2_reenter_rx(w) == [Called(w, "rm2_reenter_rx") EXCEPT !.radio = "rx_ff"]

rm2_txinit_bf(w) == [Called(w, "rm2_txinit_bf") EXCEPT !.radio = "csma_bf"]

rm2_txinit_ff(w) == [Called(w, "rm2_txinit_ff") EXCEPT !.radio = "csma_ff"]

rm2_prep_resend(w) == [Called(w, "rm2_prep_resend") EXCEPT !.radio = "resend"]

StoppedRadio(state) ==
    CASE state = "rx_bf"                          -> "stop_bscan"
      [] state = "rx_ff"                          -> "stop_frx"
      [] state \in {"csma_bf", "tx_bf"}           -> "stop_btx"
      [] state \in {"csma_ff", "tx_ff", "resend"} -> "stop_ftx"
      [] OTHER                                    -> state

rm2_kill(w) == [Called(w, "rm2_kill") EXCEPT !.radio = StoppedRadio(@)]

rm2_rxtimeout_isr(w) ==
    [Called(w, "rm2_rxtimeout_isr") EXCEPT !.radio = StoppedRadio(@)]

\* rm2_pkt_duration(): one tick per packet in this model
rm2_pkt_duration(bytes) == 1

\* rm2_default_tgd(): guard time of a channel
rm2_default_tgd(channel) == 1


(***************************************************************************)
(* System core: idle routing.                                              *)
(***************************************************************************)
sys_goto_off(w) ==
    LET w1 == session_init(Called(w, "sys_goto_off"))
    IN  [w1 EXCEPT !.sys.evt.RFA.event_no       = 0,
                   !.sys.evt.idle[HSS].event_no = 0,
                   !.sys.evt.idle[SSS].event_no = 0,
                   !.sys.evt.idle[BTS].event_no = 0]

sys_goto_sleep(w) ==
    [Called(w, "sys_goto_sleep") EXCEPT
        !.sys.evt.idle[SSS].cursor   = 0,
        !.sys.evt.idle[SSS].event_no = 1,
        !.sys.evt.idle[HSS].event_no = 0,
        !.sys.evt.RFA.event_no       = 0]

\* sys_goto_hold() without the line that disables the sleep scan event
sys_goto_hold_keep_sleep(w) ==
    [Called(w, "sys_goto_hold") EXCEPT
        !.sys.evt.idle[HSS].event_no = 1,
        !.sys.evt.RFA.event_no       = 0]

sys_goto_hold(w) ==
    [Called(w, "sys_goto_hold") EXCEPT
        !.sys.evt.idle[HSS].event_no = 1,
        !.sys.evt.idle[SSS].event_no = 0,
        !.sys.evt.RFA.event_no       = 0]

\* sys_idle() without the line that clears the mutex
sys_idle_keep_mutex(w) ==
    LET w1   == radio_sleep(radio_gag(Called(w, "sys_idle")))
        code == w1.dll.idle_state % 4
    IN  CASE code = 0 -> sys_goto_off(w1)
          [] code = 1 -> sys_goto_sleep(w1)
          [] OTHER    -> sys_goto_hold(w1)

\* call_table[dll.idle_state & 3]()
sys_idle(w) ==
    LET w1   == radio_sleep(radio_gag(Called(w, "sys_idle")))
        w2   == [w1 EXCEPT !.sys.mutex = 0]
        code == w2.dll.idle_state % 4
    IN  CASE code = 0 -> sys_goto_off(w2)
          [] code = 1 -> sys_goto_sleep(w2)
          [] OTHER    -> sys_goto_hold(w2)

\* a default idle state of hold for every device that is not off
sub_default_idle_hold(w) ==
    IF BitAnd(w.dll.netconf.active, M2_SET_CLASSMASK) /= 0
    THEN M2_MACIDLE_HOLD ELSE M2_MACIDLE_OFF

sub_default_idle(w) ==
    LET active_setting == BitAnd(w.dll.netconf.active, M2_SET_CLASSMASK)
    IN  IF active_setting >= M2_SET_SUBCONTROLLER THEN M2_MACIDLE_HOLD
        ELSE IF BitAnd(active_setting, M2_SET_ENDPOINT) /= 0 THEN M2_MACIDLE_SLEEP
        ELSE M2_MACIDLE_OFF

sub_sys_flush(w) ==
    LET w1 == session_init(Called(w, "sub_sys_flush"))
        w2 == [w1 EXCEPT !.dll.idle_state = sub_default_idle(w1)]
        w3 == [w2 EXCEPT
                 !.sys.evt.idle[SSS].cursor    = 0,
                 !.sys.evt.idle[SSS].nextevent = 0,
                 !.sys.evt.idle[HSS].cursor    = 0,
                 !.sys.evt.idle[HSS].nextevent = 0,
                 !.sys.evt.idle[BTS].cursor    = 0,
                 !.sys.evt.idle[BTS].event_no  =
                     IF w2.dll.netconf.b_attempts /= 0 THEN 1 ELSE 0,
                 !.sys.evt.idle[BTS].nextevent = 0]
    IN  sys_idle(w3)

sys_refresh(w) ==
    LET fp == w.vl.network_settings
        w1 == [Called(w, "sys_refresh") EXCEPT
                 !.dll.netconf.subnet     = ByteAt(fp, 2),
                 !.dll.netconf.b_subnet   = ByteAt(fp, 3),
                 !.dll.netconf.dd_flags   = ByteAt(fp, 6),
                 !.dll.netconf.b_attempts = ByteAt(fp, 7),
                 !.dll.netconf.active     = vl_read(fp, 4),
                 !.dll.netconf.hold_limit = vl_read(fp, 8)]
    IN  sub_sys_flush(w1)

sys_init(w) ==
    LET w1 == Called(w, "sys_init")
    IN  sys_refresh(w1)

\* the call of the panic hook with its argument, as the log records it
PanicHook(err_code) == "sys.panic(" \o ToString(err_code) \o ")"

\* sys_panic() going straight to the off state, without sys_idle()
sys_panic_no_idle(w, err_code) ==
    LET w1 == [Called(w, "sys_panic") EXCEPT !.dll.idle_state = 0,
                                              !.sys.mutex = 0]
        w2 == sys_goto_off(session_flush(w1))
    IN  Called(Called(w2, "platform_flush_gptim"), PanicHook(err_code))

\* sys_panic() without the line that turns the idle state off
sys_panic_keep_idle(w, err_code) ==
    LET w2 == sys_idle(session_flush(Called(w, "sys_panic")))
    IN  Called(Called(w2, "platform_flush_gptim"), PanicHook(err_code))

sys_panic(w, err_code) ==
    LET w1 == [Called(w, "sys_panic") EXCEPT !.dll.idle_state = 0]
        w2 == sys_idle(session_flush(w1))
    IN  Called(Called(w2, "platform_flush_gptim"), PanicHook(err_code))

(***************************************************************************)
(* Access to the top session through the m2session pointer that            *)
(* session_top() returns.  On an empty stack the pointer is not valid:     *)
(* the access is recorded as "invalid_session" and has no effect.          *)
(***************************************************************************)
TopField(w, field, default) ==
    IF w.session = << >> THEN default ELSE w.session[1][field]

SetTop(w, field, value) ==
    IF w.session = << >> THEN Called(w, "invalid_session")
    ELSE [w EXCEPT !.session[1][field] = value]

(***************************************************************************)
(* Flow and congestion control.  A routine that returns a value yields     *)
(* [w |-> world after, ret |-> value].  `rnd` is platform_prand_u16().     *)
(***************************************************************************)
\* a % b in C for an unsigned a; a zero divisor is undefined and is recorded
ModC(a, b) == IF b > 0 THEN a % b ELSE IF b < 0 THEN a % (0 - b) ELSE 0

sub_rigd_newslot(w, rnd) ==
    LET tc == w.dll.comm.tc \div 2
        w1 == [Called(w, "sub_rigd_newslot") EXCEPT !.dll.comm.tc  = tc,
                                                   !.dll.comm.tca = tc]
    IN  [ w   |-> IF tc = 0 THEN Called(w1, "division_by_zero") ELSE w1,
          ret |-> ModC(rnd, tc) ]

sub_rigd_nextslot(w) ==
    LET wait == w.dll.comm.tc - w.dll.comm.tca
    IN  IF wait < 0 THEN 0 ELSE wait

sub_aind_nextslot(w) == rm2_pkt_duration(0)

phymac_tg == 1

CsmaMode(w) == (w.dll.comm.csmaca_params \div 8) % 4

sub_fcinit(w, rnd) ==
    LET mode == CsmaMode(w)
    IN  CASE mode = 0 -> sub_rigd_newslot(w, rnd)
          [] mode = 1 ->
               LET m == w.dll.comm.tca - rm2_pkt_duration(0)
               IN  [ w   |-> IF m = 0 THEN Called(w, "division_by_zero") ELSE w,
                     ret |-> ModC(rnd, m) ]
          [] OTHER    -> [ w |-> w, ret |-> 0 ]

\* sub_rigd_nextslot() + sub_rigd_newslot(): C leaves the order in which the
\* two calls are evaluated to the compiler; `newslot_first` is that choice
sub_fcloop(w, rnd, newslot_first) ==
    LET mode == CsmaMode(w)
    IN  CASE mode = 0 ->
               LET new == sub_rigd_newslot(w, rnd)
                   nxt == IF newslot_first THEN sub_rigd_nextslot(new.w)
                                           ELSE sub_rigd_nextslot(w)
               IN  [ w |-> new.w, ret |-> nxt + new.ret ]
          [] mode \in {1, 2} -> [ w |-> w, ret |-> sub_aind_nextslot(w) ]
          [] OTHER           -> [ w |-> w, ret |-> phymac_tg ]

(***************************************************************************)
(* Idle-time events.                                                       *)
(***************************************************************************)
\* exp-mantissa expansion of a timeout code: b3:0 mantissa, b5:4 exponent,
\* b6 the 1024x multiplier
otutils_calc_timeout(code) ==
    LET mant == code % 16
        exp  == (code \div 16) % 4
        mult == IF (code \div 64) % 2 = 1 THEN 1024 ELSE 1
    IN  mant * (4 ^ exp) * mult

\* sub_scan_channel() without the return of the cursor to 0 at the end of
\* the sequence
sub_scan_channel_no_wrap(w, i, fp) ==
    LET cursor == w.sys.evt.idle[i].cursor
    IN  session_new(
          [Called(w, "sub_scan_channel") EXCEPT
             !.sys.evt.idle[i].nextevent = Swap16(vl_read(fp, cursor + 2)),
             !.sys.evt.idle[i].cursor    = cursor + 4],
          0, M2_NETSTATE_REQRX + M2_NETSTATE_INIT, ByteAt(fp, cursor))

sub_scan_channel(w, i, fp) ==
    LET cursor    == w.sys.evt.idle[i].cursor
        s_channel == ByteAt(fp, cursor)
        s_flags   == ByteAt(fp, cursor + 1)
        next      == Swap16(vl_read(fp, cursor + 2))
        advanced  == cursor + 4
        w1 == [Called(w, "sub_scan_channel") EXCEPT
                 !.sys.evt.idle[i].nextevent = next,
                 !.sys.evt.idle[i].cursor    =
                     IF advanced >= Len(fp) THEN 0 ELSE advanced]
        w2 == [w1 EXCEPT
                 !.dll.comm.rx_timeout  = otutils_calc_timeout(s_flags),
                 !.dll.comm.redundants  = 0,
                 !.dll.comm.rx_channels = 1,
                 !.dll.comm.rx_chanlist = 1,
                 !.dll.comm.scratch[1]  = s_channel]
        netstate == IF BitAnd(s_flags, 128) /= 0
                    THEN M2_NETSTATE_REQRX + M2_NETSTATE_INIT + M2_NETFLAG_FLOOD
                    ELSE M2_NETSTATE_REQRX + M2_NETSTATE_INIT
    IN  session_new(w2, 0, netstate, s_channel)

sysevt_holdscan(w) ==
    sub_scan_channel(Called(w, "sysevt_holdscan"), HSS, w.vl.hold_scan_sequence)

sysevt_sleepscan(w) ==
    sub_scan_channel(Called(w, "sysevt_sleepscan"), SSS, w.vl.sleep_scan_sequence)

sys_default_csma(chan_id) ==
    LET c == BitAnd(chan_id, 48)
    IN  IF c = 0 \/ c = 48 THEN 4 ELSE 0

\* `isf_call_ok` is whether m2qp_isf_call() could build the beacon payload
sysevt_beacon(w, isf_call_ok) ==
    LET fp == w.vl.beacon_transmit_sequence
        w0 == Called(w, "sysevt_beacon")
    IN  IF w0.dll.netconf.b_attempts = 0 \/ Len(fp) = 0
        THEN [w0 EXCEPT !.sys.evt.idle[BTS].nextevent = 65535]
        ELSE
          LET cursor        == w0.sys.evt.idle[BTS].cursor
              channel       == ByteAt(fp, cursor)
              beacon_params == ByteAt(fp, cursor + 1)
              w1 == session_new(w0, 0, M2_NETSTATE_INIT + M2_NETFLAG_FIRSTRX, channel)
              w2 == SetTop(SetTop(w1, "subnet", w1.dll.netconf.b_subnet), "flags",
                           BitOr(BitClear(w1.dll.netconf.dd_flags, 48),
                                 BitAnd(beacon_params, 48)))
              next     == Swap16(vl_read(fp, cursor + 6))
              advanced == cursor + 8
              w3 == [w2 EXCEPT
                       !.sys.evt.idle[BTS].nextevent = next,
                       !.sys.evt.idle[BTS].cursor    =
                           IF advanced >= Len(fp) THEN 0 ELSE advanced]
              w4 == [w3 EXCEPT
                       !.dll.comm.tc            = M2_PARAM_BEACON_TCA,
                       !.dll.comm.rx_timeout    =
                           IF BitAnd(beacon_params, 2) /= 0 THEN 0
                           ELSE rm2_default_tgd(channel),
                       !.dll.comm.csmaca_params =
                           BitOr(BitOr(sys_default_csma(channel),
                                       BitAnd(beacon_params, 4)),
                                 BitOr(M2_CSMACA_NA2P, M2_CSMACA_MACCA)),
                       !.dll.comm.redundants    = w3.dll.netconf.b_attempts,
                       !.dll.comm.tx_channels   = 1,
                       !.dll.comm.rx_channels   = 1,
                       !.dll.comm.tx_chanlist   = 0,
                       !.dll.comm.rx_chanlist   = 1,
                       !.dll.comm.scratch       = [ k \in 0 .. 1 |-> channel ]]
          IN  IF isf_call_ok THEN w4 ELSE session_pop(w4)

(***************************************************************************)
(* Radio I/O events.                                                       *)
(***************************************************************************)
sysevt_receive(w) ==
    LET w0 == Called(w, "sysevt_receive")
    IN  IF \/ BitAnd(w0.sys.mutex, SYS_MUTEX_RADIO_DATA) = 0
           \/ BitAnd(w0.dll.comm.csmaca_params, M2_CSMACA_A2P) /= 0
        THEN rm2_rxtimeout_isr(w0)
        ELSE w0

sysevt_bscan(w) ==
    LET w1 == [Called(w, "sysevt_bscan") EXCEPT
                 !.sys.evt.RFA.event_no  = 1,
                 !.sys.evt.RFA.nextevent = w.dll.comm.rx_timeout,
                 !.sys.mutex             = SYS_MUTEX_RADIO_LISTEN]
    IN  rm2_rxinit_bf(w1)

\* sysevt_fscan() that arms the radio without setting the RFA event
sysevt_fscan_no_event(w) ==
    LET w1 == [Called(w, "sysevt_fscan") EXCEPT
                 !.sys.mutex             = SYS_MUTEX_RADIO_LISTEN,
                 !.sys.evt.RFA.nextevent = w.dll.comm.rx_timeout]
    IN  rm2_rxinit_ff(w1)

sysevt_fscan(w) ==
    LET w1 == [Called(w, "sysevt_fscan") EXCEPT
                 !.sys.mutex             = SYS_MUTEX_RADIO_LISTEN,
                 !.sys.evt.RFA.nextevent = w.dll.comm.rx_timeout,
                 !.sys.evt.RFA.event_no  = 2]
    IN  rm2_rxinit_ff(w1)

sysevt_initbtx(w) ==
    LET w1 == [Called(w, "sysevt_initbtx") EXCEPT !.sys.evt.RFA.event_no = 3]
        w2 == rm2_txinit_bf(w1)
    IN  [w2 EXCEPT !.sys.mutex             = SYS_MUTEX_RADIO_LISTEN,
                   !.sys.evt.RFA.nextevent = 0,
                   !.dll.comm.tca          = w2.dll.comm.tc]

\* sysevt_initftx() without the final tca = tc
sysevt_initftx_stale_tca(w, rnd) ==
    LET w1 == [Called(w, "sysevt_initftx") EXCEPT !.sys.evt.RFA.event_no = 4]
        w2 == rm2_txinit_ff(w1)
        w3 == [w2 EXCEPT !.sys.mutex = SYS_MUTEX_RADIO_LISTEN]
        fc == sub_fcinit(w3, rnd)
    IN  [fc.w EXCEPT !.sys.evt.RFA.nextevent = fc.ret]

sysevt_initftx(w, rnd) ==
    LET w1 == [Called(w, "sysevt_initftx") EXCEPT !.sys.evt.RFA.event_no = 4]
        w2 == rm2_txinit_ff(w1)
        w3 == [w2 EXCEPT !.sys.mutex = SYS_MUTEX_RADIO_LISTEN]
        fc == sub_fcinit(w3, rnd)
        w4 == [fc.w EXCEPT !.sys.evt.RFA.nextevent = fc.ret]
    IN  [w4 EXCEPT !.dll.comm.tca = w4.dll.comm.tc]

\* rm2_txcsma() answers `csma_code`; on CSMA_SUCCESS the driver starts to
\* send the frame
rm2_txcsma(w, csma_code) ==
    LET w0 == Called(w, "rm2_txcsma")
    IN  IF csma_code = CSMA_SUCCESS
        THEN [w0 EXCEPT !.radio = IF @ \in {"csma_bf", "stop_btx", "tx_bf"}
                                  THEN "tx_bf" ELSE "tx_ff"]
        ELSE w0

\* the failure exit of sysevt_txcsma() without the session_pop()
sysevt_txcsma_fail_keep_session(w) ==
    sys_idle(Called(w, "sys.evt.RFA.terminate"))

sysevt_txcsma_fail(w) ==
    sys_idle(session_pop(Called(w, "sys.evt.RFA.terminate")))

\* sysevt_txcsma() that adds RADIO_DATA to the mutex on success and keeps
\* the bits it finds
sysevt_txcsma_or_mutex(w, csma_code, rnd, newslot_first) ==
    LET w0 == Called(w, "sysevt_txcsma")
    IN  IF w0.dll.comm.tca >= 0
        THEN LET w1 == rm2_txcsma(w0, csma_code)
             IN  CASE csma_code = RM2_ERR_BADCHANNEL -> sysevt_txcsma_fail(w1)
                   [] csma_code = RM2_ERR_CCAFAIL ->
                        LET fc == sub_fcloop(w1, rnd, newslot_first)
                        IN  [fc.w EXCEPT !.sys.evt.RFA.nextevent = fc.ret]
                   [] csma_code = CSMA_SUCCESS ->
                        LET event_no == w1.sys.evt.RFA.event_no + 2
                        IN  [w1 EXCEPT
                               !.sys.mutex             = BitOr(@, SYS_MUTEX_RADIO_DATA),
                               !.sys.evt.RFA.event_no  = event_no,
                               !.sys.evt.RFA.nextevent =
                                   IF event_no = 5 THEN w1.sys.evt.adv_time
                                   ELSE rm2_pkt_duration(0)]
                   [] OTHER -> [w1 EXCEPT !.sys.evt.RFA.nextevent = csma_code]
        ELSE sysevt_txcsma_fail(w0)

sysevt_txcsma(w, csma_code, rnd, newslot_first) ==
    LET w0 == Called(w, "sysevt_txcsma")
    IN  IF w0.dll.comm.tca >= 0
        THEN LET w1 == rm2_txcsma(w0, csma_code)
             IN  CASE csma_code = RM2_ERR_BADCHANNEL -> sysevt_txcsma_fail(w1)
                   [] csma_code = RM2_ERR_CCAFAIL ->
                        LET fc == sub_fcloop(w1, rnd, newslot_first)
                        IN  [fc.w EXCEPT !.sys.evt.RFA.nextevent = fc.ret]
                   [] csma_code = CSMA_SUCCESS ->
                        LET event_no == w1.sys.evt.RFA.event_no + 2
                        IN  [w1 EXCEPT
                               !.sys.mutex             = SYS_MUTEX_RADIO_DATA,
                               !.sys.evt.RFA.event_no  = event_no,
                               !.sys.evt.RFA.nextevent =
                                   IF event_no = 5 THEN w1.sys.evt.adv_time
                                   ELSE rm2_pkt_duration(0)]
                   [] OTHER -> [w1 EXCEPT !.sys.evt.RFA.nextevent = csma_code]
        ELSE sysevt_txcsma_fail(w0)

(***************************************************************************)
(* Event manager.                                                          *)
(***************************************************************************)
\* faulty variant of the idle-event loop: runs from index 0 upwards, so that
\* the highest due index is the one left in `output`
RECURSIVE ClockIdleEventsAscending(_, _, _, _)
ClockIdleEventsAscending(w, i, elapsed, output) ==
    IF i < 0 THEN [ w |-> w, output |-> output ]
    ELSE LET w1 == [w EXCEPT !.sys.evt.idle[i].nextevent = ClockDown(@, elapsed)]
             due == /\ w1.sys.evt.idle[i].event_no /= 0
                    /\ w1.sys.evt.idle[i].nextevent <= 0
         IN  ClockIdleEventsAscending(w1, i - 1, elapsed,
                 IF due /\ output = TASK_idle THEN TASK_hold + i ELSE output)

\* for (i = IDLE_EVENTS-1; i >= 0; i--): clock idle[i] and note it when due
RECURSIVE ClockIdleEvents(_, _, _, _)
ClockIdleEvents(w, i, elapsed, output) ==
    IF i < 0 THEN [ w |-> w, output |-> output ]
    ELSE LET w1 == [w EXCEPT !.sys.evt.idle[i].nextevent = ClockDown(@, elapsed)]
             due == /\ w1.sys.evt.idle[i].event_no /= 0
                    /\ w1.sys.evt.idle[i].nextevent <= 0
         IN  ClockIdleEvents(w1, i - 1, elapsed,
                             IF due THEN TASK_hold + i ELSE output)

\* faulty variant of sub_clock_tasks(): the session check comes last and
\* overrides the radio event and the packet processing
sub_clock_tasks_session_last(w, elapsed) ==
    LET w1 == [w EXCEPT !.dll.comm.tca = ClockDown(@, elapsed)]
        c2 == ClockIdleEvents(w1, IDLE_EVENTS - 1, elapsed, TASK_idle)
        w3 == session_clock(c2.w, elapsed)
        o4 == IF w3.sys.evt.RFA.event_no /= 0 THEN TASK_radio ELSE c2.output
        w4 == IF w3.sys.evt.RFA.event_no /= 0
              THEN [w3 EXCEPT !.sys.evt.RFA.nextevent = ClockDown(@, elapsed)]
              ELSE w3
        o5 == IF BitAnd(w4.sys.mutex, SYS_MUTEX_PROCESSING) /= 0
              THEN TASK_processing ELSE o4
    IN  [ w |-> w4,
          output |-> IF session_ready(c2.w, elapsed) THEN TASK_session ELSE o5 ]

sub_clock_tasks(w, elapsed) ==
    LET w1 == [w EXCEPT !.dll.comm.tca = ClockDown(@, elapsed)]
        c2 == ClockIdleEvents(w1, IDLE_EVENTS - 1, elapsed, TASK_idle)
        \* Clock sessions (Priority 3)
        o3 == IF session_ready(c2.w, elapsed) THEN TASK_session ELSE c2.output
        w3 == session_clock(c2.w, elapsed)
        \* Clock the Radio Event (Priority 2)
        o4 == IF w3.sys.evt.RFA.event_no /= 0 THEN TASK_radio ELSE o3
        w4 == IF w3.sys.evt.RFA.event_no /= 0
              THEN [w3 EXCEPT !.sys.evt.RFA.nextevent = ClockDown(@, elapsed)]
              ELSE w3
        \* Do Immediate Packet Processing (Priority 1)
        o5 == IF BitAnd(w4.sys.mutex, SYS_MUTEX_PROCESSING) /= 0
              THEN TASK_processing ELSE o4
    IN  [ w |-> w4, output |-> o5 ]

\* sub_next_event(): the smallest nextevent of the enabled idle-time events
RECURSIVE NextEventEta(_, _, _)
NextEventEta(w, i, eta) ==
    IF i < 0 THEN eta
    ELSE NextEventEta(w, i - 1,
            IF /\ w.sys.evt.idle[i].event_no /= 0
               /\ w.sys.evt.idle[i].nextevent < eta
            THEN w.sys.evt.idle[i].nextevent ELSE eta)

sub_next_event(w) == NextEventEta(w, IDLE_EVENTS - 1, 65535)

\* a task yields [w |-> world after, ret |-> ticks returned to the caller],
\* with ret = -1 when the task breaks out of the switch and the manager loops
Loops(w) == [ w |-> w, ret |-> 0 - 1 ]

\* the Idle task that counts the disabled idle-time events as well
task_idle_all_events(w) ==
    IF /\ session_count(w) >= 0
       /\ BitAnd(TopField(w, "netstate", 0), M2_NETSTATE_CONNECTED) /= 0
    THEN [ w |-> w, ret |-> TopField(w, "counter", 0) ]
    ELSE LET S == { w.sys.evt.idle[i].nextevent : i \in 0 .. IDLE_EVENTS - 1 }
                    \cup {65535}
             event_eta == CHOOSE m \in S : \A x \in S : m <= x
         IN  IF event_eta <= 0 THEN Loops(w) ELSE [ w |-> w, ret |-> event_eta ]

task_idle(w) ==
    IF /\ session_count(w) >= 0
       /\ BitAnd(TopField(w, "netstate", 0), M2_NETSTATE_CONNECTED) /= 0
    THEN [ w |-> w, ret |-> TopField(w, "counter", 0) ]
    ELSE LET event_eta == sub_next_event(w)
         IN  IF event_eta <= 0 THEN Loops(w) ELSE [ w |-> w, ret |-> event_eta ]

(***************************************************************************)
(* network_route_ff(), by its contract: the network layer scores the       *)
(* frame in the RX queue (`route.score`); for a frame it accepts it may    *)
(* prepare a response, which sets the session to response-TX and loads     *)
(* the response's contention period and CSMA-CA parameters, and it copies  *)
(* the frame's Listen flag into the session flags.                         *)
(***************************************************************************)
M2FI_LISTEN == 128

network_route_ff(w, route) ==
    LET w0 == Called(w, "network_route_ff")
        netstate == TopField(w0, "netstate", 0)
    IN  IF route.score < 0 THEN w0
        ELSE LET w1 == SetTop(w0, "flags", IF route.listen THEN M2FI_LISTEN ELSE 0)
                 w2 == [w1 EXCEPT !.dll.comm.tc            = route.tc,
                                  !.dll.comm.csmaca_params = route.csmaca,
                                  !.dll.comm.redundants    = 1,
                                  !.dll.comm.tx_channels   = 1,
                                  !.dll.comm.tx_chanlist   = 0]
             IN  IF BitAnd(netstate, M2_NETSTATE_TMASK) = M2_NETSTATE_REQRX
                 THEN SetTop(w2, "netstate",
                             BitOr(BitClear(netstate, M2_NETSTATE_TMASK),
                                   M2_NETSTATE_RESPTX))
                 ELSE w2

\* where session_new() puts a session that is due in `wait` ticks: behind
\* the sessions that are due before it
CloneIndex(stack, wait) ==
    1 + Cardinality({ i \in 1 .. Len(stack) :
                        \A j \in 1 .. i : stack[j].counter < wait })

\* the Processing task that leaves idle_state and hold_cycle alone
task_processing_no_hold(w, route) ==
    LET w1 == SetTop(Called(w, "TASK_processing"), "counter", 0)
        w2 == network_route_ff(w1, route)
    IN  Loops([w2 EXCEPT !.sys.mutex = BitClear(@, SYS_MUTEX_PROCESSING)])

\* the Processing task up to its last statement
task_processing_body(w, route) ==
    LET w1 == SetTop(Called(w, "TASK_processing"), "counter", 0)
        w2 == network_route_ff(w1, route)
        session_flags   == TopField(w2, "flags", 0)
        session_channel == TopField(w2, "channel", 0)
        session_subnet  == TopField(w2, "subnet", 0)
        w3 == IF route.score >= 0
              THEN LET a == [w2 EXCEPT !.sys.evt.hold_cycle = 0,
                                       !.hold_scans         = 0,
                                       !.dll.idle_state     = M2_MACIDLE_HOLD]
                   IN  IF BitAnd(session_flags, M2FI_LISTEN) /= 0
                       THEN LET b == session_drop(session_clock(a, a.dll.comm.tc))
                                failed == session_new_fails(b, b.dll.comm.tc)
                                c == session_new(b, b.dll.comm.tc,
                                        M2_NETSTATE_REQRX + M2_NETSTATE_ASSOCIATED,
                                        b.dll.comm.scratch[b.dll.comm.rx_chanlist])
                                k == CloneIndex(b.session, b.dll.comm.tc)
                                d == IF failed THEN Called(c, "invalid_session")
                                     ELSE [c EXCEPT
                                             !.session[k].subnet  = session_subnet,
                                             !.session[k].channel = session_channel]
                            IN  [d EXCEPT
                                   !.dll.comm.redundants  = 0,
                                   !.dll.comm.rx_chanlist = 1,
                                   !.dll.comm.scratch[1]  = session_channel,
                                   !.dll.comm.rx_timeout  = 10,
                                   !.dll.comm.tc          = @ - rm2_pkt_duration(0)]
                       ELSE a
              ELSE w2
    IN  w3

\* the last statement of the Processing task: sys.mutex &= ~SYS_MUTEX_PROCESSING
task_processing_clear(w) ==
    [w EXCEPT !.sys.mutex = BitClear(@, SYS_MUTEX_PROCESSING)]

task_processing(w, route) ==
    Loops(task_processing_clear(task_processing_body(w, route)))

\* the Radio task that takes only RFA.event_no below 2 for RX
task_radio_rx_below_2(w, csma_code, rnd, newslot_first) ==
    LET w0 == Called(w, "TASK_radio")
    IN  IF w0.sys.evt.RFA.nextevent <= 0
        THEN IF w0.sys.evt.RFA.event_no < 2 THEN Loops(sysevt_receive(w0))
             ELSE IF w0.sys.evt.RFA.event_no < 5
                  THEN Loops(sysevt_txcsma(w0, csma_code, rnd, newslot_first))
             ELSE [ w |-> w0, ret |-> 1 ]
        ELSE [ w |-> w0, ret |-> w0.sys.evt.RFA.nextevent ]

task_radio(w, csma_code, rnd, newslot_first) ==
    LET w0 == Called(w, "TASK_radio")
    IN  IF w0.sys.evt.RFA.nextevent <= 0
        THEN IF w0.sys.evt.RFA.event_no < 3 THEN Loops(sysevt_receive(w0))
             ELSE IF w0.sys.evt.RFA.event_no < 5
                  THEN Loops(sysevt_txcsma(w0, csma_code, rnd, newslot_first))
             ELSE [ w |-> w0, ret |-> 1 ]
        ELSE [ w |-> w0, ret |-> w0.sys.evt.RFA.nextevent ]

\* the Session task with the first two entries of call_table exchanged
task_session_swapped(w, rnd) ==
    LET w1 == session_drop(Called(w, "TASK_session"))
        w2 == [w1 EXCEPT !.dll.idle_state = sub_default_idle(w1)]
        call_code == session_netstate(w2) \div 32
    IN  Loops(IF BitAnd(call_code, 4) /= 0 THEN sys_idle(session_pop(w2))
              ELSE CASE call_code = 0 -> sysevt_fscan(w2)
                     [] call_code = 1 -> sysevt_initftx(w2, rnd)
                     [] call_code = 2 -> sysevt_initbtx(w2)
                     [] OTHER         -> sysevt_bscan(w2))

task_session(w, rnd) ==
    LET w1 == session_drop(Called(w, "TASK_session"))
        w2 == [w1 EXCEPT !.dll.idle_state = sub_default_idle(w1)]
        call_code == session_netstate(w2) \div 32
    IN  Loops(IF BitAnd(call_code, 4) /= 0 THEN sys_idle(session_pop(w2))
              ELSE CASE call_code = 0 -> sysevt_initftx(w2, rnd)
                     [] call_code = 1 -> sysevt_fscan(w2)
                     [] call_code = 2 -> sysevt_initbtx(w2)
                     [] OTHER         -> sysevt_bscan(w2))

task_hold(w) ==
    LET w1 == [Called(w, "TASK_hold") EXCEPT
                 !.sys.evt.hold_cycle =
                     (@ + (IF w.sys.evt.idle[HSS].cursor = 0 THEN 1 ELSE 0)) % 65536]
    IN  Loops(IF /\ BitAnd(w1.dll.netconf.active, M2_SET_CLASSMASK) = M2_SET_ENDPOINT
                 /\ w1.sys.evt.hold_cycle = w1.dll.netconf.hold_limit
              THEN sysevt_sleepscan(sys_goto_sleep(w1))
              ELSE sysevt_holdscan([w1 EXCEPT !.hold_scans = @ + 1]))

task_sleep(w) == Loops(sysevt_sleepscan(Called(w, "TASK_sleep")))

task_beacon(w, isf_call_ok) == Loops(sysevt_beacon(Called(w, "TASK_beacon"), isf_call_ok))

(***************************************************************************)
(* Radio driver callbacks.                                                 *)
(***************************************************************************)
phymac_link_qual == 80

\* sub_mac_filter() without the comparison of the subnet masks
sub_mac_filter_any_mask(w, frame) ==
    LET linkloss  == (((frame.eirp \div 2) % 64) - 40) - frame.rssi
        specifier == BitAnd(BitXor(frame.subnet, w.dll.netconf.subnet), 240)
    IN  /\ linkloss <= phymac_link_qual
        /\ (BitAnd(frame.subnet, 240) = 240 \/ specifier = 0)

\* rxq.front[1] carries the TX EIRP code, rxq.front[2] the frame subnet
sub_mac_filter(w, frame) ==
    LET linkloss  == (((frame.eirp \div 2) % 64) - 40) - frame.rssi
        fr_subnet == frame.subnet
        dsm       == BitAnd(w.dll.netconf.subnet, 15)
        mask      == BitAnd(fr_subnet, dsm)
        specifier == BitAnd(BitXor(fr_subnet, w.dll.netconf.subnet), 240)
    IN  /\ linkloss <= phymac_link_qual
        /\ (BitAnd(fr_subnet, 240) = 240 \/ specifier = 0)
        /\ mask = dsm

\* network_parse_bf(), by its contract: creates the session that will listen
\* on `channel` for the request the background frame announces, `wait` ticks
\* from now
network_parse_bf(w, wait, channel) ==
    session_new(Called(w, "network_parse_bf"), wait,
                M2_NETSTATE_REQRX + M2_NETSTATE_INIT, channel)

\* rfevt_bscan() that leaves the scan's session on the stack
rfevt_bscan_keep_session(w, scode, frame, wait) ==
    LET w0 == Called(w, "rfevt_bscan")
    IN  IF scode = -1 /\ w0.dll.comm.redundants /= 0
        THEN rm2_rxinit_bf(w0)
        ELSE LET channel == w0.dll.comm.scratch[w0.dll.comm.rx_chanlist]
                 w1 == radio_sleep(w0)
                 w2 == IF scode >= 0 /\ sub_mac_filter(w1, frame)
                       THEN network_parse_bf(w1, wait, channel)
                       ELSE w1
                 w3 == Called(w2, "sys.evt.RFA.terminate")
             IN  [w3 EXCEPT !.sys.mutex = 0, !.sys.evt.RFA.event_no = 0]

rfevt_bscan(w, scode, frame, wait) ==
    LET w0 == Called(w, "rfevt_bscan")
    IN  IF scode = -1 /\ w0.dll.comm.redundants /= 0
        THEN rm2_rxinit_bf(w0)
        ELSE LET channel == w0.dll.comm.scratch[w0.dll.comm.rx_chanlist]
                 w1 == session_pop(radio_sleep(w0))
                 w2 == IF scode >= 0 /\ sub_mac_filter(w1, frame)
                       THEN network_parse_bf(
                              [w1 EXCEPT !.sys.mutex = SYS_MUTEX_PROCESSING],
                              wait, channel)
                       ELSE w1
                 w3 == Called(w2, "sys.evt.RFA.terminate")
             IN  [w3 EXCEPT !.sys.mutex = 0, !.sys.evt.RFA.event_no = 0]

\* the local frx_code of rfevt_frx() for a completed frame: -1 for a bad CRC,
\* -4 for a frame the MAC filter rejects, 0 for a good one
frx_code_for(w, fcode, frame) ==
    IF fcode /= 0 THEN 0 - 1
    ELSE IF ~sub_mac_filter(w, frame) THEN 0 - 4
    ELSE 0

\* rfevt_frx() that hands every completed frame to the Processing task
rfevt_frx_process_all(w, pcode, fcode, frame) ==
    LET w0 == Called(w, "rfevt_frx")
    IN  IF pcode = 0
        THEN rm2_reenter_rx([w0 EXCEPT !.sys.mutex =
                                 BitOr(@, SYS_MUTEX_PROCESSING)])
        ELSE w0

\* rfevt_frx() that scraps the session on every timeout, whatever redundants
\* and csmaca_params are, and ignores completed frames
rfevt_frx_scrap_always(w, pcode, fcode, frame) ==
    LET w0 == Called(w, "rfevt_frx")
    IN  IF pcode < 0
        THEN SetTop([w0 EXCEPT !.sys.evt.RFA.event_no = 0,
                               !.radio = IF @ = "stop_frx" THEN "idle" ELSE @],
                    "netstate", M2_NETFLAG_SCRAP)
        ELSE w0

rfevt_frx(w, pcode, fcode, frame) ==
    LET w0 == Called(w, "rfevt_frx")
        netstate == TopField(w0, "netstate", 0)
    IN  IF pcode < 0
        THEN LET w1 == [w0 EXCEPT !.sys.evt.RFA.event_no = 0,
                                  !.radio = IF @ = "stop_frx" THEN "idle" ELSE @]
                 w2 == IF w1.dll.comm.redundants /= 0
                       THEN SetTop(w1, "netstate",
                              M2_NETSTATE_REQTX + M2_NETSTATE_INIT + M2_NETFLAG_FIRSTRX)
                       ELSE IF BitAnd(w1.dll.comm.csmaca_params, M2_CSMACA_A2P) /= 0
                       THEN SetTop(w1, "netstate", BitXor(netstate, 48))
                       ELSE SetTop(w1, "netstate", M2_NETFLAG_SCRAP)
             IN  Called(w2, "sys.evt.RFA.terminate")
        ELSE LET frx_code == frx_code_for(w0, fcode, frame)
                 w1 == IF /\ fcode /= 0
                          /\ BitAnd(netstate, M2_NETSTATE_DSDIALOG) /= 0
                       THEN Called(w0, "m2dp_mark_dsframe") ELSE w0
                 resp == BitAnd(netstate, M2_NETSTATE_RESP)
                 w2 == IF pcode = 0 /\ frx_code = 0
                       THEN [w1 EXCEPT !.sys.mutex = BitOr(@, SYS_MUTEX_PROCESSING)]
                       ELSE w1
                 reenter == pcode = 0 /\ (frx_code /= 0 \/ resp /= 0)
                 w3 == IF reenter THEN rm2_reenter_rx(w2)
                       ELSE IF pcode = 0
                       THEN radio_sleep([w2 EXCEPT !.sys.evt.RFA.event_no = 0])
                       ELSE w2
                 pcode2 == IF reenter THEN frx_code ELSE pcode
                 w4 == IF w3.sys.evt.RFA.event_no = 0
                       THEN Called(w3, "sys.evt.RFA.terminate") ELSE w3
             IN  IF pcode2 = 0 THEN Called(w4, "platform_ot_preempt") ELSE w4

rfevt_ftx(w, pcode) ==
    LET w0 == Called(w, "rfevt_ftx")
    IN  IF pcode = 1 THEN w0
        ELSE
          LET netstate   == TopField(w0, "netstate", 0)
              scrap_bit  == \/ w0.dll.comm.rx_timeout = 0
                            \/ BitAnd(netstate, M2_NETSTATE_RESPTX) /= 0
              redundants == (w0.dll.comm.redundants + 255) % 256
              w1 == [w0 EXCEPT !.sys.mutex            = 0,
                               !.sys.evt.RFA.event_no = 0,
                               !.dll.comm.redundants  = redundants,
                               !.radio                = "idle"]
              w2 == IF scrap_bit /\ redundants /= 0
                    THEN rm2_prep_resend(
                           [w1 EXCEPT !.dll.comm.csmaca_params =
                                BitOr(M2_CSMACA_NOCSMA, M2_CSMACA_MACCA)])
                    ELSE SetTop(w1, "netstate",
                           BitOr(BitClear(
                                   BitOr(netstate,
                                         IF scrap_bit \/ pcode /= 0
                                         THEN M2_NETFLAG_SCRAP ELSE 0),
                                   M2_NETSTATE_TMASK),
                                 M2_NETSTATE_RESPRX))
          IN  Called(Called(w2, "sys.evt.RFA.terminate"), "platform_ot_preempt")

\* `gptim` is platform_get_gptim(), the ticks since the timer was flushed
rfevt_btx(w, flcode, gptim) ==
    LET w0 == Called(w, "rfevt_btx")
    IN  CASE flcode = 0 ->
               LET w1 == Called(Called(w0, "sys.evt.RFA.terminate"), "m2advp_close")
                   w2 == SetTop(w1, "counter", 0)
                   w3 == [w2 EXCEPT !.sys.evt.adv_time       = 0,
                                    !.sys.evt.RFA.event_no   = 0,
                                    !.sys.mutex              = 0,
                                    !.dll.comm.tc            = 2,
                                    !.dll.comm.csmaca_params =
                                        BitOr(M2_CSMACA_NOCSMA, M2_CSMACA_MACCA),
                                    !.dll.comm.redundants    = 1,
                                    !.radio                  = "idle"]
               IN  Called(w3, "platform_ot_preempt")
          [] flcode = 2 ->
               IF w0.sys.evt.adv_time - gptim < rm2_pkt_duration(7)
               THEN Called(w0, "rm2_txstop_flood")
               ELSE w0
          [] OTHER ->
               Called(sys_idle(Called(w0, "sys.evt.RFA.terminate")),
                      "platform_ot_preempt")

(***************************************************************************)
(* OTAPI server functions.                                                 *)
(***************************************************************************)
otapi_new_session(w, s_tmpl) ==
    LET w1 == session_flush(Called(w, "otapi_new_session"))
        w2 == session_new(w1, 0, M2_NETSTATE_INIT + M2_NETSTATE_REQTX, s_tmpl.channel)
        w3 == SetTop(SetTop(w2, "subnet", w2.dll.netconf.subnet),
                     "flags", w2.dll.netconf.dd_flags)
    IN  [w3 EXCEPT !.dll.comm.tc            = s_tmpl.timeout,
                   !.dll.comm.redundants    = 1,
                   !.dll.comm.tx_channels   = 1,
                   !.dll.comm.rx_channels   = 1,
                   !.dll.comm.scratch[0]    = s_tmpl.channel,
                   !.dll.comm.tx_chanlist   = 0,
                   !.dll.comm.rx_chanlist   = 0,
                   !.dll.comm.csmaca_params = BitOr(M2_CSMACA_NA2P, M2_CSMACA_MACCA)]

otapi_sysinit(w) == sys_refresh(Called(w, "otapi_sysinit"))

otapi_start_dialog(w) ==
    LET w0 == Called(w, "otapi_start_dialog")
        w1 == IF w0.sys.mutex /= 0
              THEN rm2_kill([w0 EXCEPT !.sys.mutex = 0])
              ELSE w0
    IN  Called(w1, "platform_ot_preempt")

\* m2advp_init_flood(), by its contract: refuses (negative) or turns the top
\* session into a flood of `flood_duration` ticks
otapi_start_flood(w, flood_duration, init_ok) ==
    LET w0 == Called(w, "otapi_start_flood")
    IN  IF flood_duration = 0 THEN otapi_start_dialog(w0)
        ELSE IF ~init_ok THEN session_pop(Called(w0, "m2advp_init_flood"))
        ELSE sysevt_initbtx(
               [Called(w0, "m2advp_init_flood") EXCEPT
                   !.sys.evt.adv_time = flood_duration])

(***************************************************************************)
(* Behaviour.  One action per entry into the kernel: an iteration of the   *)
(* event manager's loop (one action per task it dispatches), a radio       *)
(* driver callback, or an OTAPI call of the application.                   *)
(***************************************************************************)
\* the tasks that are pending once the clocks have been advanced
DueTasks(w) ==
    { TASK_hold + i : i \in { k \in 0 .. IDLE_EVENTS - 1 :
                                /\ w.sys.evt.idle[k].event_no /= 0
                                /\ w.sys.evt.idle[k].nextevent <= 0 } }
    \cup (IF session_ready(w, 0) THEN {TASK_session} ELSE {})
    \cup (IF w.sys.evt.RFA.event_no /= 0 THEN {TASK_radio} ELSE {})
    \cup (IF BitAnd(w.sys.mutex, SYS_MUTEX_PROCESSING) /= 0
          THEN {TASK_processing} ELSE {})

\* what counts as an event: a call of the application, a frame the driver
\* delivers
IsEvent(op, code) ==
    \/ op \in {"otapi_new_session", "otapi_start_dialog", "otapi_start_flood",
               "otapi_sysinit", "sys_init", "sys_panic"}
    \/ op \in {"rfevt_bscan", "rfevt_frx"} /\ code >= 0

NoDispatch == [ task |-> 0 - 1, due |-> {}, ret |-> 0 - 1 ]

\* the variables take the value of the world after an operation
Commit(w, op, code, dispatch) ==
    /\ events'     = events - (IF IsEvent(op, code) THEN 1 ELSE 0)
    /\ events'     >= 0
    /\ sys'        = w.sys
    /\ dll'        = w.dll
    /\ session'    = w.session
    /\ radio'      = w.radio
    /\ vl'         = w.vl
    /\ hold_scans' = w.hold_scans
    /\ panicked'   = IF op = "sys_panic" THEN TRUE
                     ELSE IF op \in {"sys_init", "otapi_sysinit", "sys_refresh"}
                     THEN FALSE
                     ELSE panicked
    /\ last'       = [ op |-> op, code |-> code, task |-> dispatch.task,
                       due |-> dispatch.due, ret |-> dispatch.ret,
                       calls |-> w.calls ]

Init ==
    \E d \in Devices :
        LET w == sys_init([ sys |-> ZeroSys, dll |-> ZeroDll, session |-> << >>,
                            radio |-> "idle", vl |-> ConfigFiles(d),
                            hold_scans |-> 0,
                            calls |-> << >> ])
        IN  /\ sys        = w.sys
            /\ dll        = w.dll
            /\ session    = w.session
            /\ radio      = w.radio
            /\ vl         = w.vl
            /\ hold_scans = w.hold_scans
            /\ events     = d.events
            /\ panicked   = FALSE
            /\ last       = [ op |-> "sys_init", code |-> 0, task |-> 0 - 1,
                              due |-> {}, ret |-> 0 - 1, calls |-> w.calls ]

Elapsed    == 0 .. MaxElapsed
Rnd        == {0, 1}
CsmaCodes  == {CSMA_SUCCESS, RM2_ERR_CCAFAIL, RM2_ERR_BADCHANNEL, 1}
Routes     ==
    { [ score |-> 0 - 1, listen |-> FALSE, tc |-> 1, csmaca |-> 0 ] }
    \cup { [ score |-> 0, listen |-> l, tc |-> t, csmaca |-> c ] :
             l \in BOOLEAN, t \in {MaxTimeout},
             c \in {0, M2_CSMACA_A2P + M2_CSMACA_MACCA} }
Frames     ==
    { [ eirp |-> 80, rssi |-> 0 - 60, subnet |-> 240 ],
      [ eirp |-> 80, rssi |-> 0 - 60, subnet |-> 48 ] }

\* what the platform and the other modules answer during one dispatch
NoAnswer ==
    [ route |-> [ score |-> 0 - 1, listen |-> FALSE, tc |-> 1, csmaca |-> 0 ],
      csma_code |-> CSMA_SUCCESS, rnd |-> 0, newslot_first |-> FALSE,
      isf_call_ok |-> TRUE ]

\* the answers that the dispatch of `task` on world w can consult
Answers(task, w) ==
    CASE task = TASK_processing ->
           { [NoAnswer EXCEPT !.route = r] : r \in Routes }
      [] task = TASK_radio ->
           IF /\ w.sys.evt.RFA.nextevent <= 0
              /\ w.sys.evt.RFA.event_no \in {3, 4}
              /\ w.dll.comm.tca >= 0
           THEN { [NoAnswer EXCEPT !.csma_code = c] :
                    c \in CsmaCodes \ {RM2_ERR_CCAFAIL} }
                \cup { [NoAnswer EXCEPT !.csma_code     = RM2_ERR_CCAFAIL,
                                        !.rnd           = r,
                                        !.newslot_first = f] :
                         r \in Rnd, f \in BOOLEAN }
           ELSE { NoAnswer }
      [] task = TASK_session ->
           { [NoAnswer EXCEPT !.rnd = r] : r \in Rnd }
      [] task = TASK_beacon ->
           { [NoAnswer EXCEPT !.isf_call_ok = ok] : ok \in BOOLEAN }
      [] OTHER -> { NoAnswer }

\* switch (sub_clock_tasks(elapsed)) of sys_event_manager()
RunTask(task, w, in) ==
    CASE task = TASK_idle       -> task_idle(w)
      [] task = TASK_processing -> task_processing(w, in.route)
      [] task = TASK_radio      ->
           task_radio(w, in.csma_code, in.rnd, in.newslot_first)
      [] task = TASK_session    -> task_session(w, in.rnd)
      [] task = TASK_hold       -> task_hold(w)
      [] task = TASK_sleep      -> task_sleep(w)
      [] task = TASK_beacon     -> task_beacon(w, in.isf_call_ok)
      [] OTHER                  -> Loops(sys_panic(w, 64))

\* one iteration of the loop of sys_event_manager(), `elapsed` ticks after
\* the previous one
EventManagerAfter(elapsed) ==
    LET c == sub_clock_tasks(World, elapsed)
    IN  /\ c.output = TASK_hold => sys.evt.hold_cycle < MaxHoldCycle
        /\ \E in \in Answers(c.output, c.w) :
             LET r == RunTask(c.output, c.w, in)
             IN  Commit(r.w, "sys_event_manager", elapsed,
                        [ task |-> c.output, due |-> DueTasks(c.w),
                          ret |-> r.ret ])

EventManager == \E elapsed \in Elapsed : EventManagerAfter(elapsed)

\* the driver reports the end of a background scan
RfBscan ==
    /\ radio \in {"rx_bf", "stop_bscan"}
    /\ \E scode \in (IF radio = "rx_bf" THEN {0, 0 - 1}
                     ELSE {RM2_ERR_KILL, RM2_ERR_TIMEOUT}),
          frame \in Frames :
         Commit(rfevt_bscan(World, scode, frame, 1), "rfevt_bscan", scode, NoDispatch)

\* the driver reports a received foreground frame, or the end of listening
RfFrx ==
    /\ radio \in {"rx_ff", "stop_frx"}
    /\ \E pcode \in (IF radio = "rx_ff" THEN {0, 1}
                     ELSE {RM2_ERR_KILL, RM2_ERR_TIMEOUT}),
          fcode \in {0, 0 - 1}, frame \in Frames :
         Commit(rfevt_frx(World, pcode, fcode, frame), "rfevt_frx", pcode, NoDispatch)

\* the driver reports a transmitted foreground frame, or a failure
RfFtx ==
    /\ radio \in {"tx_ff", "stop_ftx"}
    /\ dll.comm.redundants \in 0 .. MaxRedundants
    /\ \E pcode \in (IF radio = "tx_ff" THEN {0, 1} ELSE {RM2_ERR_KILL}) :
         Commit(rfevt_ftx(World, pcode), "rfevt_ftx", pcode, NoDispatch)

\* the driver reports the state of a flood
RfBtx ==
    /\ radio \in {"tx_bf", "stop_btx"}
    /\ \E flcode \in (IF radio = "tx_bf" THEN {0, 2} ELSE {RM2_ERR_KILL}),
          gptim \in Elapsed :
         Commit(rfevt_btx(World, flcode, gptim), "rfevt_btx", flcode, NoDispatch)

ApiNewSession ==
    \E timeout \in 1 .. MaxTimeout :
        Commit(otapi_new_session(World, [ channel |-> 16, timeout |-> timeout ]),
               "otapi_new_session", timeout, NoDispatch)

\* otapi_start_dialog() returns 1 on every path
ApiStartDialog ==
    Commit(otapi_start_dialog(World), "otapi_start_dialog", 0,
           [NoDispatch EXCEPT !.ret = 1])

ApiStartFlood ==
    \E flood_duration \in {0, MaxElapsed}, init_ok \in BOOLEAN :
        Commit(otapi_start_flood(World, flood_duration, init_ok),
               "otapi_start_flood", flood_duration, NoDispatch)

\* otapi_sysinit(): the application reruns the configuration refresh
ApiSysinit ==
    Commit(otapi_sysinit(World), "otapi_sysinit", 0, NoDispatch)

\* the platform restarts the kernel: sys_init() on whatever state it is in
SysInit ==
    Commit(sys_init(World), "sys_init", 0, NoDispatch)

Next ==
    \/ EventManager
    \/ RfBscan
    \/ RfFrx
    \/ RfFtx
    \/ RfBtx
    \/ ApiNewSession
    \/ ApiStartDialog
    \/ ApiStartFlood
    \/ ApiSysinit
    \/ SysInit

Spec == Init /\ [][Next]_vars

(***************************************************************************)
(* Properties.                                                             *)
(***************************************************************************)
\* the state is the one an iteration of the event manager has just left
Dispatched == last.op = "sys_event_manager"

HigherTasks == {TASK_processing, TASK_radio, TASK_session}
IdleTasks   == {TASK_hold, TASK_sleep, TASK_beacon}

\* C1: every iteration of the event manager runs exactly one task, chosen
\* by strict priority among the tasks pending after the clocks have been
\* advanced: Processing when the PROCESSING bit is set, otherwise Radio when
\* RFA.event_no /= 0, otherwise Session when the top session is ready,
\* otherwise an idle-time event that is enabled and due, otherwise Idle.
\* (The External task is not part of the build modelled.)
C1_StrictPriority ==
    Dispatched =>
        /\ last.task \in TASK_idle .. TASK_beacon
        /\ TASK_processing \in last.due => last.task = TASK_processing
        /\ TASK_processing \notin last.due /\ TASK_radio \in last.due
              => last.task = TASK_radio
        /\ {TASK_processing, TASK_radio} \cap last.due = {}
              /\ TASK_session \in last.due
              => last.task = TASK_session
        /\ HigherTasks \cap last.due = {} /\ last.due /= {}
              => last.task \in last.due
        /\ last.due = {} => last.task = TASK_idle

\* C1 witness: Processing is dispatched while a session and an idle-time
\* event are pending too
C1_Witness ==
    /\ Dispatched
    /\ last.task = TASK_processing
    /\ TASK_session \in last.due
    /\ IdleTasks \cap last.due /= {}

\* C2 as stated: when several idle-time events are due and no Processing,
\* Radio or Session task is pending, Beacon is chosen over Sleep and Sleep
\* over Hold (the due event of highest index runs).
C2_BeaconOverSleepOverHold ==
    (Dispatched /\ HigherTasks \cap last.due = {} /\ last.due /= {})
        => \A t \in last.due : t <= last.task

\* C2 amended: when several idle-time events are due and no Processing,
\* Radio or Session task is pending, Hold is chosen over Sleep and Sleep
\* over Beacon (the due event of lowest index runs).
C2_HoldOverSleepOverBeacon ==
    (Dispatched /\ HigherTasks \cap last.due = {} /\ last.due /= {})
        => /\ last.task \in last.due
           /\ \A t \in last.due : last.task <= t

\* C2 witness: two idle-time events are due in the same iteration and
\* nothing of higher priority is pending
C2_Witness ==
    /\ Dispatched
    /\ HigherTasks \cap last.due = {}
    /\ Cardinality(last.due) >= 2

\* the kernel's contention clocks
tca == dll.comm.tca

tc == dll.comm.tc

\* the last operation initialised a transmission
TxInitialised == HasCalled("sysevt_initftx") \/ HasCalled("sysevt_initbtx")

\* the RFA events of a transmission: flood or foreground CSMA, data in flight
TxEvents == 3 .. 6

\* C3 (as claimed): tca <= tc holds in every reachable state.
C3_TcaBelowTcAlways == tca <= tc

\* C3 (amended): tca <= tc is established, as tca = tc, by the operation that
\* initialises a transmission, and every step that keeps the RFA event a
\* transmission, other than the creation of a new session by the application,
\* preserves tca <= tc and does not increase tc.
C3_TcaWithinTcWhileTransmitting ==
    /\ [](TxInitialised => tca = tc)
    /\ [][ (/\ sys.evt.RFA.event_no \in TxEvents
            /\ sys'.evt.RFA.event_no \in TxEvents
            /\ last'.op /= "otapi_new_session"
            /\ dll.comm.tca <= dll.comm.tc)
           => (/\ dll'.comm.tca <= dll'.comm.tc
               /\ dll'.comm.tc <= dll.comm.tc) ]_vars

\* C3: the Radio task has run inside a contention that the clock has taken
\* below the tc it started from
C3_Witness ==
    /\ Dispatched
    /\ last.task = TASK_radio
    /\ HasCalled("sysevt_txcsma")
    /\ sys.evt.RFA.event_no \in TxEvents
    /\ 0 <= tca
    /\ tca < tc

\* what the radio does on behalf of a session
RadioEngaged == { "rx_bf", "rx_ff", "csma_bf", "csma_ff", "tx_bf", "tx_ff" }

RadioStopped == { "stop_bscan", "stop_frx", "stop_btx", "stop_ftx" }

\* C4 (as claimed): RFA.event_no is in 0..6 and is non-zero exactly when the
\* radio is armed for RX, contending, holding a prepared resend or
\* transmitting.
C4_EventNoIffRadioOwned ==
    /\ sys.evt.RFA.event_no \in 0 .. 6
    /\ sys.evt.RFA.event_no /= 0 <=> radio \in RadioEngaged \cup {"resend"}

\* C4 (amended): RFA.event_no is in 0..6; it is non-zero whenever the radio is
\* armed for RX, contending or transmitting; and when it is non-zero the radio
\* is so engaged or has been stopped with its callback still to run.
C4_EngagedRadioHasEvent ==
    /\ sys.evt.RFA.event_no \in 0 .. 6
    /\ radio \in RadioEngaged => sys.evt.RFA.event_no /= 0
    /\ sys.evt.RFA.event_no /= 0 => radio \in RadioEngaged \cup RadioStopped

\* C4: otapi_start_dialog has killed a radio that was working for a session
C4_Witness ==
    /\ last.op = "otapi_start_dialog"
    /\ HasCalled("rm2_kill")
    /\ sys.evt.RFA.event_no /= 0
    /\ radio \in RadioStopped

RadioCallbacks == { "rfevt_bscan", "rfevt_frx", "rfevt_ftx", "rfevt_btx" }

\* C5 (as claimed): after a radio callback only the three defined bits can be
\* set in sys.mutex, and sys.mutex is non-zero only if RFA.event_no is
\* non-zero or the PROCESSING bit is set.
C5_MutexAfterCallback ==
    last.op \in RadioCallbacks =>
        /\ sys.mutex \in 0 .. (SYS_MUTEX_RADIO_LISTEN + SYS_MUTEX_RADIO_DATA
                                 + SYS_MUTEX_PROCESSING)
        /\ sys.mutex /= 0 =>
               \/ sys.evt.RFA.event_no /= 0
               \/ BitAnd(sys.mutex, SYS_MUTEX_PROCESSING) /= 0

IdlePost(w) ==
    /\ w.radio = "sleep"
    /\ w.sys.mutex = 0
    /\ w.sys.evt.RFA.event_no = 0

\* C6: after sys_idle() the radio is asleep, sys.mutex is 0 and RFA.event_no
\* is 0, in the state every operation that called it leaves and for a call in
\* any reachable state.
C6_SysIdlePost ==
    /\ HasCalled("sys_idle") => IdlePost(World)
    /\ IdlePost(sys_idle(World))

\* C6: a failed contention has sent the kernel to idle from the Radio task
C6_Witness ==
    /\ Dispatched
    /\ last.task = TASK_radio
    /\ HasCalled("sysevt_txcsma")
    /\ HasCalled("sys_idle")

HoldEventOnly ==
    sys.evt.idle[HSS].event_no /= 0 /\ sys.evt.idle[SSS].event_no = 0

SleepEventOnly ==
    sys.evt.idle[SSS].event_no /= 0 /\ sys.evt.idle[HSS].event_no = 0

\* C7 (as claimed): in every state, idle_state hold means HSS enabled and SSS
\* disabled, idle_state sleep means SSS enabled and HSS disabled, and the two
\* are never both enabled.
C7_ScanEventMatchesIdleMode ==
    /\ dll.idle_state = M2_MACIDLE_HOLD => HoldEventOnly
    /\ dll.idle_state = M2_MACIDLE_SLEEP => SleepEventOnly
    /\ ~(sys.evt.idle[HSS].event_no /= 0 /\ sys.evt.idle[SSS].event_no /= 0)

\* C7 (amended): HSS and SSS are never both enabled, and the enabled one
\* matches idle_state in the state left by an operation that called
\* sys_idle().
C7_ScanEventMatchesAfterIdle ==
    /\ ~(sys.evt.idle[HSS].event_no /= 0 /\ sys.evt.idle[SSS].event_no /= 0)
    /\ HasCalled("sys_idle") =>
           /\ dll.idle_state = M2_MACIDLE_HOLD => HoldEventOnly
           /\ dll.idle_state = M2_MACIDLE_SLEEP => SleepEventOnly
           /\ dll.idle_state = M2_MACIDLE_OFF =>
                  sys.evt.idle[HSS].event_no = 0 /\ sys.evt.idle[SSS].event_no = 0

IsEndpoint(w) ==
    BitAnd(w.dll.netconf.active, M2_SET_CLASSMASK) = M2_SET_ENDPOINT

\* C7: sys_idle() has taken an endpoint into hold
C7_Witness ==
    /\ IsEndpoint(World)
    /\ HasCalled("sys_idle")
    /\ HasCalled("sys_goto_hold")
    /\ dll.idle_state = M2_MACIDLE_HOLD

InitPost(w) ==
    IsEndpoint(w) =>
        /\ w.dll.idle_state = M2_MACIDLE_SLEEP
        /\ w.sys.evt.idle[SSS] = [ event_no |-> 1, cursor |-> 0, nextevent |-> 0 ]
        /\ w.sys.evt.idle[HSS].event_no = 0
        /\ w.sys.evt.RFA.event_no = 0
        /\ w.sys.mutex = 0
        /\ w.session = << >>
        /\ w.radio = "sleep"
        /\ w.sys.evt.idle[BTS].event_no = 1 <=> w.dll.netconf.b_attempts /= 0

\* C8: sys_init() on an endpoint leaves idle_state sleep, SSS enabled at
\* cursor 0 and due, HSS and RFA disabled, the mutex clear, no session, the
\* radio asleep, and BTS enabled exactly when b_attempts is non-zero; in the
\* state sys_init() leaves and for a call in any reachable state.
C8_SysInitEndpoint ==
    /\ last.op = "sys_init" => InitPost(World)
    /\ InitPost(sys_init(World))

\* C8: a beaconing endpoint has been restarted by sys_init()
C8_Witness ==
    /\ last.op = "sys_init"
    /\ events < MaxEvents
    /\ IsEndpoint(World)
    /\ dll.netconf.b_attempts /= 0

\* the Hold task has just taken the device from hold to sleep
HoldToSleep ==
    /\ Dispatched
    /\ last.task = TASK_hold
    /\ HasCalled("sys_goto_sleep")

\* records of four bytes in the hold scan sequence
HoldRecords == Len(vl.hold_scan_sequence) \div 4

\* C9 (as claimed): the device that goes from hold to sleep is an endpoint
\* and has performed hold_limit complete passes of the hold scan sequence
\* since hold_cycle was 0.
C9_HoldLimitPasses ==
    HoldToSleep =>
        /\ IsEndpoint(World)
        /\ hold_scans = dll.netconf.hold_limit * HoldRecords

\* C10 (as claimed): the dispatch that takes the device from hold to sleep
\* leaves idle_state sleep, SSS enabled with the first record of the sleep
\* sequence scanned, HSS disabled, and exactly one sleep scan session in
\* place of the hold scan.
C10_AtomicHoldToSleep ==
    HoldToSleep =>
        /\ dll.idle_state = M2_MACIDLE_SLEEP
        /\ sys.evt.idle[SSS].event_no = 1
        /\ sys.evt.idle[SSS].cursor = 4
        /\ sys.evt.idle[HSS].event_no = 0
        /\ CountCalls("sysevt_sleepscan") = 1
        /\ CountCalls("sub_scan_channel") = 1
        /\ ~HasCalled("sysevt_holdscan")

\* the four radio initialisers of the Session task, in call_table order
SessionInitialisers ==
    << "sysevt_initftx", "sysevt_fscan", "sysevt_initbtx", "sysevt_bscan" >>

NetStates(stack) == [ i \in DOMAIN stack |-> stack[i].netstate ]

\* C11: a Session dispatch on a top session with the SCRAP bit pops it, calls
\* none of the four initialisers and runs sys_idle; on a top session without
\* it, calls exactly the initialiser at index (netstate >> 5) & 3 of
\* {initftx, fscan, initbtx, bscan}.
C11_SessionDispatch ==
    [][ (last'.op = "sys_event_manager" /\ last'.task = TASK_session) =>
          LET netstate == session[1].netstate
              called(name) == \E i \in DOMAIN last'.calls : last'.calls[i] = name
          IN  IF BitAnd(netstate, M2_NETFLAG_SCRAP) /= 0
              THEN /\ \/ session' = << >>
                      \/ NetStates(session') = Tail(NetStates(session))
                   /\ \A k \in 1 .. 4 : ~called(SessionInitialisers[k])
                   /\ called("sys_idle")
              ELSE \A k \in 1 .. 4 :
                     called(SessionInitialisers[k])
                       <=> (k = ((netstate \div 32) % 4) + 1) ]_vars

\* C11: the Session task has scrapped a session and gone idle
C11_Witness ==
    /\ Dispatched
    /\ last.task = TASK_session
    /\ HasCalled("sys_idle")
    /\ \A k \in 1 .. 4 : ~HasCalled(SessionInitialisers[k])

\* C12: a foreground listen timeout (rfevt_frx with pcode < 0) clears
\* RFA.event_no, leaves redundants unchanged, and sets the top session's
\* netstate to REQTX|INIT|FIRSTRX when redundants is non-zero, else toggles
\* its transfer bits 4-5 when csmaca_params has A2P, else sets it to SCRAP.
C12_ListenTimeout ==
    [][ (last'.op = "rfevt_frx" /\ last'.code < 0) =>
          /\ sys'.evt.RFA.event_no = 0
          /\ dll'.comm.redundants = dll.comm.redundants
          /\ session /= << >> =>
               /\ Len(session') = Len(session)
               /\ session'[1].netstate =
                    IF dll.comm.redundants /= 0
                    THEN M2_NETSTATE_REQTX + M2_NETSTATE_INIT + M2_NETFLAG_FIRSTRX
                    ELSE IF BitAnd(dll.comm.csmaca_params, M2_CSMACA_A2P) /= 0
                    THEN BitXor(session[1].netstate, M2_NETSTATE_TMASK)
                    ELSE M2_NETFLAG_SCRAP ]_vars

\* C12: a listen has timed out with redundants left and the session is set
\* to retry its request
C12_Witness ==
    /\ last.op = "rfevt_frx"
    /\ last.code < 0
    /\ dll.comm.redundants /= 0
    /\ session /= << >>
    /\ session[1].netstate =
         M2_NETSTATE_REQTX + M2_NETSTATE_INIT + M2_NETFLAG_FIRSTRX

\* the state rfevt_frx(0, fcode) leaves for a frame with a bad CRC or one the
\* MAC filter rejects, against the state `w` it was called in
BadFramePost(w, fcode, frame) ==
    LET after == rfevt_frx(w, 0, fcode, frame)
        called(name) == \E i \in DOMAIN after.calls : after.calls[i] = name
    IN  /\ after.sys.mutex = w.sys.mutex
        /\ after.radio = "rx_ff"
        /\ called("rm2_reenter_rx")
        /\ after.sys.evt.RFA.event_no = w.sys.evt.RFA.event_no
        /\ ~called("sys.evt.RFA.terminate")
        /\ ~called("platform_ot_preempt")
        /\ after.session = w.session
        /\ fcode /= 0 => frx_code_for(w, fcode, frame) = 0 - 1

\* C13: a completed packet (pcode == 0) with a bad CRC or rejected by the MAC
\* filter leaves the PROCESSING bit as it was, re-enters RX with RFA.event_no
\* unchanged, calls neither the terminate hook nor the preemption, and has
\* frx_code -1 for a bad CRC; for every such frame in every state in which
\* the radio listens for a foreground frame.
C13_BadFrameAbsorbed ==
    radio = "rx_ff" =>
        \A fcode \in {0 - 1, 0, 1}, frame \in Frames :
            (fcode /= 0 \/ ~sub_mac_filter(World, frame))
                => BadFramePost(World, fcode, frame)

\* C13: the callback has absorbed a bad frame and the listen goes on
C13_Witness ==
    /\ last.op = "rfevt_frx"
    /\ last.code = 0
    /\ HasCalled("rm2_reenter_rx")
    /\ ~HasCalled("platform_ot_preempt")
    /\ BitAnd(sys.mutex, SYS_MUTEX_PROCESSING) = 0
    /\ sys.evt.RFA.event_no = 2
    /\ radio = "rx_ff"

(***************************************************************************)
(* RIGD slots on their own: sub_fcinit() and then sub_fcloop(), with no     *)
(* clock in between, from a contention period of every length up to        *)
(* MaxRigdTc and from the 1000 ticks of the specification's example.        *)
(***************************************************************************)
MaxRigdTc == 16

MaxRigdSlots == 4

RigdStarts == (1 .. MaxRigdTc) \cup {1000}

\* values of platform_prand_u16()
RigdRandoms == {0, 1, 499, 500, 65535}

InitRigd ==
    \E d \in Devices, T \in RigdStarts :
        LET w  == sys_init([ sys        |-> ZeroSys,
                             dll        |-> ZeroDll,
                             session    |-> << >>,
                             radio      |-> "idle",
                             vl         |-> ConfigFiles(d),
                             hold_scans |-> 0,
                             calls      |-> << >> ])
        IN  /\ sys = w.sys
            /\ dll = [w.dll EXCEPT !.comm.tc = T, !.comm.tca = T,
                                   !.comm.csmaca_params = M2_CSMACA_NA2P]
            /\ session = w.session
            /\ radio = w.radio
            /\ vl = w.vl
            /\ events = 0
            /\ hold_scans = 0
            /\ panicked = FALSE
            /\ last = [ op |-> "sys_init", start |-> T, slots |-> 0,
                        ret |-> 0, calls |-> << >> ]

RigdCommit(r, op) ==
    /\ last.slots < MaxRigdSlots
    /\ dll' = r.w.dll
    /\ last' = [ op |-> op, start |-> last.start, slots |-> last.slots + 1,
                 ret |-> r.ret, calls |-> r.w.calls ]
    /\ UNCHANGED << sys, session, radio, vl, events, hold_scans, panicked >>

\* the first slot of a contention
RigdFcInit ==
    /\ last.slots = 0
    /\ \E rnd \in RigdRandoms : RigdCommit(sub_fcinit(World, rnd), "sub_fcinit")

\* a further slot after a failed CCA
RigdFcLoop ==
    /\ last.slots > 0
    /\ \E rnd \in RigdRandoms, newslot_first \in BOOLEAN :
           RigdCommit(sub_fcloop(World, rnd, newslot_first), "sub_fcloop")

NextRigd == RigdFcInit \/ RigdFcLoop

SpecRigd == InitRigd /\ [][NextRigd]_vars

\* T >> N
ShiftRight(T, N) == T \div (2 ^ N)

\* C14 (as claimed): after N new slots from tc == T without reset,
\* tc == T >> N, tca == tc and the offset returned lies in [0, tc).
C14_RigdHalving ==
    last.slots > 0 =>
        /\ tc = ShiftRight(last.start, last.slots)
        /\ tca = tc
        /\ last.ret >= 0
        /\ last.ret < tc

(***************************************************************************)
(* The idle-time events on their own: the hold scan, the sleep scan and    *)
(* the beacon fired in any order on sequence files of one to MaxRecords    *)
(* records, the next-interval field of each record having two different    *)
(* bytes.                                                                  *)
(***************************************************************************)
MaxRecords == 3

\* a scan record: channel, flags, next interval (big endian)
ScanRecord(k) == << 16, 129, k + 1, 2 >>

\* a beacon record: channel, parameters, call template, next interval
BeaconRecord(k) == << 16, 5, 0, 0, 0, 0, k + 1, 2 >>

\* a hold or sleep scan sequence of n records
ScanFile(n) == [ j \in 1 .. 4 * n |-> ScanRecord((j - 1) \div 4)[((j - 1) % 4) + 1] ]

\* a beacon transmit sequence of n records
BeaconFile(n) ==
    [ j \in 1 .. 8 * n |-> BeaconRecord((j - 1) \div 8)[((j - 1) % 8) + 1] ]

InitScan ==
    \E hn \in 1 .. MaxRecords, sn \in 1 .. MaxRecords, bn \in 1 .. MaxRecords :
        LET files == [ network_settings         |->
                           NetworkSettingsISF(M2_SET_ENDPOINT, 1, 1, 0),
                       hold_scan_sequence       |-> ScanFile(hn),
                       sleep_scan_sequence      |-> ScanFile(sn),
                       beacon_transmit_sequence |-> BeaconFile(bn) ]
            w == sys_init([ sys |-> ZeroSys, dll |-> ZeroDll, session |-> << >>,
                            radio |-> "idle", vl |-> files, hold_scans |-> 0,
                            calls |-> << >> ])
        IN  /\ sys        = w.sys
            /\ dll        = w.dll
            /\ session    = w.session
            /\ radio      = w.radio
            /\ vl         = w.vl
            /\ hold_scans = 0
            /\ events     = 0
            /\ panicked   = FALSE
            /\ last       = [ op |-> "sys_init", code |-> 0, task |-> 0 - 1,
                              due |-> {}, ret |-> 0 - 1, calls |-> w.calls ]

FireHoldScan == Commit(sysevt_holdscan(World), "sysevt_holdscan", 0, NoDispatch)

FireSleepScan == Commit(sysevt_sleepscan(World), "sysevt_sleepscan", 0, NoDispatch)

FireBeacon ==
    \E isf_call_ok \in BOOLEAN :
        Commit(sysevt_beacon(World, isf_call_ok), "sysevt_beacon", 0, NoDispatch)

NextScan == FireHoldScan \/ FireSleepScan \/ FireBeacon

SpecScan == InitScan /\ [][NextScan]_vars

\* the event, the record size, the sequence file and the routine of each
\* idle-time event
SequenceOf(i) ==
    CASE i = HSS -> [ size |-> 4, file |-> vl.hold_scan_sequence,
                      op |-> "sysevt_holdscan" ]
      [] i = SSS -> [ size |-> 4, file |-> vl.sleep_scan_sequence,
                      op |-> "sysevt_sleepscan" ]
      [] OTHER   -> [ size |-> 8, file |-> vl.beacon_transmit_sequence,
                      op |-> "sysevt_beacon" ]

\* the 16-bit value an external writer stored big-endian at `offset`
BigEndianAt(file, offset) == 256 * file[offset + 1] + file[offset + 2]

\* C15: the cursor of every idle-time event is a multiple of the record size
\* inside the file, a firing moves it to the next record and back to 0 after
\* the last one, and leaves in nextevent the big-endian next-interval field
\* of the record read.
C15_CursorCycles ==
    /\ [](\A i \in 0 .. IDLE_EVENTS - 1 :
            /\ sys.evt.idle[i].cursor % SequenceOf(i).size = 0
            /\ sys.evt.idle[i].cursor >= 0
            /\ sys.evt.idle[i].cursor < Len(SequenceOf(i).file))
    /\ [][ \A i \in 0 .. IDLE_EVENTS - 1 :
             last'.op = SequenceOf(i).op =>
               LET seq == SequenceOf(i)
                   end == sys.evt.idle[i].cursor + seq.size
               IN  /\ sys'.evt.idle[i].cursor = end % Len(seq.file)
                   /\ sys'.evt.idle[i].nextevent
                        = BigEndianAt(seq.file, end - 2) ]_vars

\* C15: a hold scan has read the last of several records and the cursor is
\* back at 0
C15_Witness ==
    /\ last.op = "sysevt_holdscan"
    /\ Len(vl.hold_scan_sequence) > 4
    /\ sys.evt.idle[HSS].cursor = 0
    /\ sys.evt.idle[HSS].nextevent
         = BigEndianAt(vl.hold_scan_sequence, Len(vl.hold_scan_sequence) - 2)

(***************************************************************************)
(* The MAC filter on its own: devices of several subnets, and frames of    *)
(* several subnets, TX EIRP codes and received signal strengths, on both   *)
(* sides of the link-loss limit.                                           *)
(***************************************************************************)
FilterSubnets == {0, 80, 90, 255}

FilterFrames ==
    { [ eirp |-> e, rssi |-> r, subnet |-> s ] :
        e \in {0, 80, 81, 208, 255},
        r \in {0 - 110, 0 - 81, 0 - 80, 0},
        s \in {0, 90, 91, 95, 106, 243, 250, 255} }

InitFilter ==
    \E subnet \in FilterSubnets :
        LET isf0  == [ NetworkSettingsISF(M2_SET_ENDPOINT, 0, 1, 0)
                         EXCEPT ![3] = subnet ]
            files == [ network_settings         |-> isf0,
                       hold_scan_sequence       |-> HoldScanISF,
                       sleep_scan_sequence      |-> SleepScanISF,
                       beacon_transmit_sequence |-> BeaconISF ]
            w == sys_init([ sys |-> ZeroSys, dll |-> ZeroDll, session |-> << >>,
                            radio |-> "idle", vl |-> files, hold_scans |-> 0,
                            calls |-> << >> ])
        IN  /\ sys        = w.sys
            /\ dll        = w.dll
            /\ session    = w.session
            /\ radio      = w.radio
            /\ vl         = w.vl
            /\ hold_scans = 0
            /\ events     = 0
            /\ panicked   = FALSE
            /\ last       = [ op |-> "sys_init", frame |-> << >>, ret |-> FALSE,
                              calls |-> w.calls ]

MacFilter ==
    \E frame \in FilterFrames :
        /\ last' = [ op |-> "sub_mac_filter", frame |-> frame,
                     ret |-> sub_mac_filter(World, frame), calls |-> << >> ]
        /\ UNCHANGED << sys, dll, session, radio, vl, hold_scans, events, panicked >>

SpecFilter == InitFilter /\ [][MacFilter]_vars

UpperNibble(byte) == byte \div 16
LowerNibble(byte) == byte % 16

\* bit b of a nibble
NibbleBit(nibble, b) == (nibble \div (2 ^ b)) % 2

\* the three conditions on a frame, from the bytes of the frame and the
\* subnet of the device
LinkLossPasses(frame) ==
    (((frame.eirp \div 2) % 64) - 40) - frame.rssi <= phymac_link_qual

SpecifierPasses(frame) ==
    \/ UpperNibble(frame.subnet) = 15
    \/ UpperNibble(frame.subnet) = UpperNibble(dll.netconf.subnet)

MaskPasses(frame) ==
    \A b \in 0 .. 3 :
        NibbleBit(LowerNibble(dll.netconf.subnet), b) = 1
            => NibbleBit(LowerNibble(frame.subnet), b) = 1

\* C16: the MAC filter accepts a frame exactly when its link loss is within
\* the limit, its subnet specifier is 0xF or the device's, and its subnet
\* mask covers the device's; a frame of subnet 0xF3 is rejected by a device
\* of subnet 0x5A.
C16_MacFilter ==
    last.op = "sub_mac_filter" =>
        /\ last.ret <=> /\ LinkLossPasses(last.frame)
                        /\ SpecifierPasses(last.frame)
                        /\ MaskPasses(last.frame)
        /\ (dll.netconf.subnet = 90 /\ last.frame.subnet = 243) => ~last.ret

\* C16: a device of subnet 0x5A has rejected a frame of subnet 0xF3 whose
\* link loss is within the limit
C16_Witness ==
    /\ last.op = "sub_mac_filter"
    /\ dll.netconf.subnet = 90
    /\ last.frame.subnet = 243
    /\ LinkLossPasses(last.frame)
    /\ ~last.ret

(***************************************************************************)
(* The 16-bit fields of the configuration files on their own: ISF 0 and    *)
(* one-record sequence files whose 16-bit fields hold the big-endian       *)
(* bytes (hi, lo), read by sys_refresh and by the idle-time events.        *)
(***************************************************************************)
EndianBytes == {0, 1, 2, 127, 128, 255}

InitEndian ==
    \E hi \in EndianBytes, lo \in EndianBytes :
        LET files == [ network_settings         |->
                           NetworkSettingsISF(M2_SET_ENDPOINT, 1, hi, lo),
                       hold_scan_sequence       |-> << 16, 129, hi, lo >>,
                       sleep_scan_sequence      |-> << 16, 129, hi, lo >>,
                       beacon_transmit_sequence |-> << 16, 5, 0, 0, 0, 0, hi, lo >> ]
            w == sys_init([ sys |-> ZeroSys, dll |-> ZeroDll, session |-> << >>,
                            radio |-> "idle", vl |-> files, hold_scans |-> 0,
                            calls |-> << >> ])
        IN  /\ sys        = w.sys
            /\ dll        = w.dll
            /\ session    = w.session
            /\ radio      = w.radio
            /\ vl         = w.vl
            /\ hold_scans = 0
            /\ events     = 0
            /\ panicked   = FALSE
            /\ last       = [ op |-> "sys_init", code |-> 0, task |-> 0 - 1,
                              due |-> {}, ret |-> 0 - 1, calls |-> w.calls ]

Refresh == Commit(sys_refresh(World), "sys_refresh", 0, NoDispatch)

NextEndian == Refresh \/ FireHoldScan \/ FireSleepScan \/ FireBeacon

SpecEndian == InitEndian /\ [][NextEndian]_vars

\* the next-interval field of the record that the last firing of idle-time
\* event i read
FieldRead(i) ==
    LET seq  == SequenceOf(i)
        read == (sys.evt.idle[i].cursor + Len(seq.file) - seq.size)
                    % Len(seq.file)
    IN  BigEndianAt(seq.file, read + seq.size - 2)

\* the next-interval field of every scan and beacon record is read as the
\* value stored big-endian
NextIntervalBigEndian ==
    \A i \in 0 .. IDLE_EVENTS - 1 :
        last.op = SequenceOf(i).op => sys.evt.idle[i].nextevent = FieldRead(i)

\* C17: every 16-bit field read from a configuration file, the next interval
\* of the scan and beacon records and the hold_limit at offset 8 of ISF 0,
\* has the value that was stored big-endian.
C17_BigEndianFields ==
    /\ NextIntervalBigEndian
    /\ dll.netconf.hold_limit = BigEndianAt(vl.network_settings, 8)

\* C18: otapi_start_dialog, called in any state, leaves sys.mutex at 0, kills
\* the radio with rm2_kill, preempts the kernel and returns 1.
C18_StartDialogKills ==
    [][ last'.op = "otapi_start_dialog" =>
          /\ sys'.mutex = 0
          /\ \E k \in DOMAIN last'.calls : last'.calls[k] = "rm2_kill"
          /\ \E k \in DOMAIN last'.calls : last'.calls[k] = "platform_ot_preempt"
          /\ last'.ret = 1 ]_vars

(***************************************************************************)
(* The kernel with panics: sys_panic() is a public routine of the kernel,  *)
(* called here by the platform in any state, as well as by the event       *)
(* manager for a task it does not know.                                    *)
(***************************************************************************)
PanicCodes == {1, 64}

SysPanic ==
    \E err_code \in PanicCodes :
        Commit(sys_panic(World, err_code), "sys_panic", err_code, NoDispatch)

NextPanic == Next \/ SysPanic

SpecPanic == Init /\ [][NextPanic]_vars

\* the state sys_panic is to establish
PanicPost ==
    /\ session = << >>
    /\ dll.idle_state = M2_MACIDLE_OFF
    /\ sys.mutex = 0
    /\ sys.evt.RFA.event_no = 0
    /\ \A i \in 0 .. IDLE_EVENTS - 1 : sys.evt.idle[i].event_no = 0

\* the panic hook is called once, with the code, as the last call
HookCalledLast ==
    /\ CountCalls(PanicHook(last.code)) = 1
    /\ \A c \in PanicCodes \ {last.code} : ~HasCalled(PanicHook(c))
    /\ last.calls[Len(last.calls)] = PanicHook(last.code)

ScanOrBeaconFired == HasCalled("sub_scan_channel") \/ HasCalled("sysevt_beacon")

RadioStarters ==
    { "rm2_kill", "rm2_rxinit_bf", "rm2_rxinit_ff", "rm2_reenter_rx",
      "rm2_txinit_bf", "rm2_txinit_ff", "rm2_prep_resend", "rm2_txcsma",
      "rm2_txstop_flood", "rm2_rxtimeout_isr" }

RadioDriverCalls == RadioStarters \cup { "radio_gag", "radio_sleep" }

\* C20 (as claimed): sys_panic invokes no operation of the radio driver.
C20_PanicLeavesRadio ==
    last.op = "sys_panic" =>
        \A k \in DOMAIN last.calls : last.calls[k] \notin RadioDriverCalls

\* C20 (amended): sys_panic silences the radio and puts it to sleep, once,
\* through sys_idle, whatever the radio was doing, and invokes neither
\* rm2_kill nor any RX or TX initialisation.
C20_PanicSleepsRadio ==
    [][ last'.op = "sys_panic" =>
          /\ radio' = "sleep"
          /\ Cardinality({ k \in DOMAIN last'.calls :
                             last'.calls[k] = "radio_gag" }) = 1
          /\ Cardinality({ k \in DOMAIN last'.calls :
                             last'.calls[k] = "radio_sleep" }) = 1
          /\ \A k \in DOMAIN last'.calls : last'.calls[k] \notin RadioStarters
      ]_vars

\* C20: a panic has put the radio to sleep while a radio event was in
\* progress (sys_goto_off disables the event and leaves its timer)
C20_Witness ==
    /\ last.op = "sys_panic"
    /\ radio = "sleep"
    /\ HasCalled("radio_gag")
    /\ HasCalled("radio_sleep")
    /\ sys.evt.RFA.nextevent > 0

\* the fields of the DLL comm block that the main loop's contention uses
CommBlock(d) ==
    << d.comm.tc, d.comm.tca, d.comm.redundants, d.comm.csmaca_params >>

\* C21: a radio callback leaves the session stack with the netstate of every
\* session, the comm block (tc, tca, redundants, csmaca_params),
\* dll.idle_state and the idle-event records as they were.
C21_CallbackFrame ==
    [][ last'.op \in RadioCallbacks =>
          /\ session' = session
          /\ CommBlock(dll') = CommBlock(dll)
          /\ dll'.idle_state = dll.idle_state
          /\ sys'.evt.idle = sys.evt.idle ]_vars

(***************************************************************************)
(* Dialogs on their own: a session opened by the application with a        *)
(* contention window of T ticks in each CSMA-CA mode, started either as a  *)
(* flood (sysevt_initbtx, through otapi_start_flood) or by the Session     *)
(* task (sysevt_initftx), and then left to the event manager and the       *)
(* driver.                                                                 *)
(***************************************************************************)
MaxDialogTc == 3

InitDialog ==
    \E d \in Devices, mode \in 0 .. 3, T \in 1 .. MaxDialogTc, flood \in BOOLEAN :
        LET w0 == sys_init([ sys |-> ZeroSys, dll |-> ZeroDll, session |-> << >>,
                             radio |-> "idle", vl |-> ConfigFiles(d),
                             hold_scans |-> 0, calls |-> << >> ])
            w1 == otapi_new_session(w0, [ channel |-> 16, timeout |-> T ])
            w2 == [w1 EXCEPT !.dll.comm.csmaca_params = 8 * mode]
            w  == IF flood THEN otapi_start_flood(w2, MaxElapsed, TRUE) ELSE w2
        IN  /\ sys        = w.sys
            /\ dll        = w.dll
            /\ session    = w.session
            /\ radio      = w.radio
            /\ vl         = w.vl
            /\ hold_scans = 0
            /\ events     = 0
            /\ panicked   = FALSE
            /\ last       = [ op |-> "otapi_new_session", code |-> T,
                              task |-> 0 - 1, due |-> {}, ret |-> 0 - 1,
                              calls |-> w.calls ]

NextDialog == EventManager \/ RfBscan \/ RfFrx \/ RfFtx \/ RfBtx

SpecDialog == InitDialog /\ [][NextDialog]_vars

\* a zero modulus has been evaluated: undefined behaviour, after which a
\* build in which the division traps goes no further
Trapped == HasCalled("division_by_zero")

\* the driver delivers the completion of every transmission and of every
\* flood
LiveDialog ==
    /\ SpecDialog
    /\ WF_vars(RfFtx /\ last'.code /= 1)
    /\ WF_vars(RfBtx /\ last'.code /= 2)

\* an iteration of the event manager before which time has advanced
Tick == last'.op = "sys_event_manager" /\ last'.code >= 1

CsmaFailPost(w0, w) ==
    /\ \E k \in DOMAIN w.calls : w.calls[k] = "sys.evt.RFA.terminate"
    /\ w.session = IF w0.session = << >> THEN << >> ELSE Tail(w0.session)
    /\ \E k \in DOMAIN w.calls : w.calls[k] = "sys_idle"
    /\ w.sys.evt.RFA.event_no = 0
    /\ w.sys.mutex = 0
    /\ w.radio = "sleep"

\* C23: in every state in which a contention is in progress, sysevt_txcsma
\* run with tca < 0 makes no CSMA attempt, and run with tca < 0 or answered
\* with a bad channel it calls the terminate hook, pops the top session and
\* idles: RFA.event_no == 0, sys.mutex == 0, radio asleep.
C23_CsmaFailure ==
    sys.evt.RFA.event_no \in {3, 4} =>
        \A csma_code \in CsmaCodes, rnd \in Rnd, newslot_first \in BOOLEAN :
            LET w == sysevt_txcsma(World, csma_code, rnd, newslot_first)
            IN  /\ (dll.comm.tca < 0 \/ csma_code = RM2_ERR_BADCHANNEL)
                      => CsmaFailPost(World, w)
                /\ dll.comm.tca < 0
                      => \A k \in DOMAIN w.calls : w.calls[k] /= "rm2_txcsma"

\* C23: the Radio task has just run sysevt_txcsma after the contention
\* window had closed: no CSMA attempt, the hook called, the device idle
C23_Witness ==
    /\ last.task = TASK_radio
    /\ HasCalled("sysevt_txcsma")
    /\ ~HasCalled("rm2_txcsma")
    /\ HasCalled("sys.evt.RFA.terminate")
    /\ dll.comm.tca < 0
    /\ sys.evt.RFA.event_no = 0
    /\ sys.mutex = 0
    /\ radio = "sleep"

(***************************************************************************)
(* The soft watchdog: a build with OT_FEATURE(SW_WATCHDOG) enabled.  The    *)
(* macros are empty in the other build, which is the one EventManager      *)
(* models.                                                                 *)
(***************************************************************************)
\* OT_FEATURE(WATCHDOG_PERIOD)
SWDP == 2

\* how far below zero the model follows sys.watchdog
MaxOverdue == 2

SYS_WATCHDOG_RUN(w) == [w EXCEPT !.sys.watchdog = @ - 1]

SYS_WATCHDOG_RESET(w) == [w EXCEPT !.sys.watchdog = SWDP]

\* rm2_kill() of a radio at work is answered with the error callback: at
\* once, inside rm2_kill() (`sync`), or from the driver's interrupt later
SYS_WATCHDOG_CHECK(w, sync, frame, gptim) ==
    IF w.sys.watchdog <= 0
    THEN LET k == rm2_kill(w)
         IN  IF ~sync THEN k
             ELSE CASE k.radio = "stop_ftx"   -> rfevt_ftx(k, RM2_ERR_KILL)
                    [] k.radio = "stop_btx"   -> rfevt_btx(k, RM2_ERR_KILL, gptim)
                    [] k.radio = "stop_frx"   ->
                         rfevt_frx(k, RM2_ERR_KILL, 0 - 1, frame)
                    [] k.radio = "stop_bscan" ->
                         rfevt_bscan(k, RM2_ERR_KILL, frame, 1)
                    [] OTHER                  -> k
    ELSE w

\* one iteration of the loop of sys_event_manager() with the watchdog
\* compiled in: the check, the task, and the reset when the task breaks
EventManagerWatchdog ==
    \E elapsed \in Elapsed,
       sync  \in (IF sys.watchdog <= 0 /\ StoppedRadio(radio) \notin {"idle", "sleep"}
                  THEN BOOLEAN ELSE {FALSE}),
       frame \in (IF sys.watchdog <= 0
                       /\ StoppedRadio(radio) \in {"stop_bscan", "stop_frx"}
                  THEN Frames ELSE {CHOOSE f \in Frames : TRUE}),
       gptim \in (IF sys.watchdog <= 0 /\ StoppedRadio(radio) = "stop_btx"
                  THEN Elapsed ELSE {0}) :
        LET w0 == SYS_WATCHDOG_CHECK(World, sync, frame, gptim)
            c  == sub_clock_tasks(w0, elapsed)
            tx_wait == /\ c.output = TASK_radio
                       /\ c.w.sys.evt.RFA.nextevent <= 0
                       /\ c.w.sys.evt.RFA.event_no >= 5
        IN  /\ c.output = TASK_hold => sys.evt.hold_cycle < MaxHoldCycle
            /\ tx_wait => sys.watchdog > 0 - MaxOverdue
            /\ \E in \in Answers(c.output, c.w) :
                 LET r == RunTask(c.output, c.w, in)
                     w == IF tx_wait THEN SYS_WATCHDOG_RUN(r.w)
                          ELSE IF r.ret = 0 - 1 THEN SYS_WATCHDOG_RESET(r.w)
                          ELSE r.w
                 IN  Commit(w, "sys_event_manager", elapsed,
                            [ task |-> c.output, due |-> DueTasks(c.w),
                              ret |-> r.ret ])

NextWatchdog == EventManagerWatchdog \/ RfBscan \/ RfFrx \/ RfFtx \/ RfBtx

SpecWatchdog == InitDialog /\ [][NextWatchdog]_vars

\* the step is an iteration of the event manager
Dispatches == last'.op = "sys_event_manager"

\* the iteration has killed the radio
KillsRadio == \E k \in DOMAIN last'.calls : last'.calls[k] = "rm2_kill"

\* the driver has just answered a kill with the error callback, which has
\* left the state machine idle
KillAnswered ==
    /\ last.op \in {"rfevt_ftx", "rfevt_btx"}
    /\ last.code = RM2_ERR_KILL
    /\ sys.evt.RFA.event_no = 0
    /\ sys.mutex = 0

\* C24: every iteration of the event manager checks the watchdog first and
\* kills the radio when it has expired; the watchdog is decremented only by
\* an iteration that finds a transmission in flight past its duration, and
\* never exceeds the period, so that the radio is killed within SWDP further
\* iterations; and after the error callback has brought the state machine
\* back to idle, the next iteration does not kill the radio again.
C24_WatchdogKillsOnce ==
    [][Dispatches =>
         /\ KillsRadio <=> sys.watchdog <= 0
         /\ sys.watchdog' < sys.watchdog =>
               sys.evt.RFA.event_no >= 5 /\ sys.watchdog' = sys.watchdog - 1
         /\ sys.watchdog' <= SWDP
         /\ KillAnswered => ~KillsRadio]_vars

\* world w holds a call of the routine `name`
CallsIn(w, name) == \E k \in DOMAIN w.calls : w.calls[k] = name

\* rfevt_frx(0, fcode) on `frame` in the present state leaves the radio
\* listening again, RFA.event_no as it was
ReentersRx(w) ==
    /\ CallsIn(w, "rm2_reenter_rx")
    /\ w.radio = "rx_ff"
    /\ w.sys.evt.RFA.event_no = sys.evt.RFA.event_no

\* the frame has a good CRC and passes the MAC filter
GoodFrame(fcode, frame) == fcode = 0 /\ sub_mac_filter(World, frame)

\* the top session is receiving a response
ResponseRx == BitAnd(TopField(World, "netstate", 0), M2_NETSTATE_RESP) /= 0

\* what the claim says of every completed packet but the preemption
FrameCompleteBut(preempt_on_response) ==
    radio = "rx_ff" /\ sys.evt.RFA.event_no = 2 =>
        \A fcode \in {0, 0 - 1}, frame \in Frames :
            LET w == rfevt_frx(World, 0, fcode, frame)
            IN  IF GoodFrame(fcode, frame)
                THEN /\ BitAnd(w.sys.mutex, SYS_MUTEX_PROCESSING) /= 0
                     /\ IF ResponseRx
                        THEN /\ ReentersRx(w)
                             /\ CallsIn(w, "platform_ot_preempt")
                                    <=> preempt_on_response
                        ELSE /\ w.sys.evt.RFA.event_no = 0
                             /\ w.radio = "sleep"
                             /\ CallsIn(w, "sys.evt.RFA.terminate")
                             /\ CallsIn(w, "platform_ot_preempt")
                ELSE /\ ReentersRx(w)
                     /\ w.sys.mutex = sys.mutex
                     /\ ~CallsIn(w, "platform_ot_preempt")

\* C25: when a packet completes (rfevt_frx with pcode == 0) with a good
\* frame, the PROCESSING bit is set; on a request-RX session RFA.event_no is
\* cleared, the radio sleeps, the terminate hook runs and the kernel is
\* preempted; on a response-RX session, as for any bad frame, the radio
\* re-enters RX with RFA.event_no unchanged and the kernel is not preempted.
C25_ResponseNotPreempted == FrameCompleteBut(FALSE)

\* C25, amended: as above, but a good frame on a response-RX session does
\* preempt the kernel; only a bad frame is kept from it.
C25_GoodFramePreempts == FrameCompleteBut(TRUE)

\* C25: a good frame has completed on a response-RX session: PROCESSING is
\* set, the radio listens again and the kernel has been preempted
C25_Witness ==
    /\ last.op = "rfevt_frx"
    /\ last.code = 0
    /\ ResponseRx
    /\ BitAnd(sys.mutex, SYS_MUTEX_PROCESSING) /= 0
    /\ HasCalled("rm2_reenter_rx")
    /\ HasCalled("platform_ot_preempt")
    /\ sys.evt.RFA.event_no = 2

\* the codes with which the driver ends a background scan
ScanCodes == {0, 0 - 1, RM2_ERR_TIMEOUT}

\* the session stack rfevt_bscan() leaves when it does not retry: the top
\* session popped, and then the session network_parse_bf() creates
SessionsAfterScan(parsed) ==
    LET popped == IF session = << >> THEN << >> ELSE Tail(session)
    IN  IF parsed
        THEN network_parse_bf([World EXCEPT !.session = popped], 1,
                              dll.comm.scratch[dll.comm.rx_chanlist]).session
        ELSE popped

\* C26: rfevt_bscan called with scode == -1 while redundants != 0 re-arms
\* RX, pops no session and leaves RFA.event_no (1 during a scan) as it is;
\* otherwise the radio sleeps, the session is popped, network_parse_bf is
\* called only if scode >= 0 and the MAC filter passes, and the routine
\* returns with sys.mutex == 0 and RFA.event_no == 0.
C26_ScanCompletion ==
    radio \in {"rx_bf", "stop_bscan"} =>
        \A scode \in ScanCodes, frame \in Frames :
            LET w == rfevt_bscan(World, scode, frame, 1)
                parsed == scode >= 0 /\ sub_mac_filter(World, frame)
            IN  IF scode = 0 - 1 /\ dll.comm.redundants /= 0
                THEN /\ CallsIn(w, "rm2_rxinit_bf")
                     /\ w.radio = "rx_bf"
                     /\ w.session = session
                     /\ w.sys = sys
                     /\ sys.evt.RFA.event_no = 1
                ELSE /\ CallsIn(w, "radio_sleep")
                     /\ w.radio = "sleep"
                     /\ CallsIn(w, "network_parse_bf") <=> parsed
                     /\ w.session = SessionsAfterScan(parsed)
                     /\ CallsIn(w, "sys.evt.RFA.terminate")
                     /\ w.sys.mutex = 0
                     /\ w.sys.evt.RFA.event_no = 0

\* C26: a background scan has ended with a frame that passed the filter:
\* the frame was parsed, the radio sleeps, the mutex and the event are clear
C26_Witness ==
    /\ last.op = "rfevt_bscan"
    /\ last.code = 0
    /\ HasCalled("network_parse_bf")
    /\ HasCalled("radio_sleep")
    /\ radio = "sleep"
    /\ sys.mutex = 0
    /\ sys.evt.RFA.event_no = 0

\* the data-in-flight states of the radio event
DataInFlight == {5, 6}

\* RFA.event_no enters 5 or 6 only in an iteration of the event manager in
\* which the Radio task has made a CSMA attempt
DataOnlyByCsma ==
    sys.evt.RFA.event_no' \in DataInFlight
      /\ sys.evt.RFA.event_no \notin DataInFlight
    => /\ last'.task = TASK_radio
       /\ \E k \in DOMAIN last'.calls : last'.calls[k] = "rm2_txcsma"
       /\ sys.evt.RFA.event_no' = sys.evt.RFA.event_no + 2
       /\ sys.mutex' = SYS_MUTEX_RADIO_DATA

\* what sysevt_txcsma makes of each answer of rm2_txcsma(), in a state in
\* which a contention is in progress with tca >= 0
CsmaOutcomes ==
    sys.evt.RFA.event_no \in {3, 4} /\ dll.comm.tca >= 0 =>
        \A rnd \in Rnd, newslot_first \in BOOLEAN :
            LET ok   == sysevt_txcsma(World, CSMA_SUCCESS, rnd, newslot_first)
                cca  == sysevt_txcsma(World, RM2_ERR_CCAFAIL, rnd, newslot_first)
                wait == sysevt_txcsma(World, 1, rnd, newslot_first)
            IN  /\ ok.sys.evt.RFA.event_no = sys.evt.RFA.event_no + 2
                /\ ok.sys.mutex = SYS_MUTEX_RADIO_DATA
                /\ ok.sys.evt.RFA.nextevent =
                       IF sys.evt.RFA.event_no = 3 THEN sys.evt.adv_time
                       ELSE rm2_pkt_duration(0)
                /\ cca.sys.evt.RFA.event_no = sys.evt.RFA.event_no
                /\ cca.sys.mutex = sys.mutex
                /\ cca.sys.evt.RFA.nextevent =
                       sub_fcloop(World, rnd, newslot_first).ret
                /\ wait.sys.evt.RFA.event_no = sys.evt.RFA.event_no
                /\ wait.sys.mutex = sys.mutex
                /\ wait.sys.evt.RFA.nextevent = 1

\* C27: the data-in-flight states are entered only by a successful CSMA
\* attempt; sysevt_txcsma answered with -1 takes RFA.event_no from 3 to 5 or
\* from 4 to 6, sets sys.mutex to exactly RADIO_DATA and RFA.nextevent to
\* adv_time for a flood and to the packet duration otherwise; answered with
\* a CCA failure it leaves RFA.event_no and sets RFA.nextevent to the value
\* of sub_fcloop(); answered with a positive code it leaves RFA.event_no and
\* sets RFA.nextevent to that code.
C27_DataInFlightByCsma == []CsmaOutcomes /\ [][DataOnlyByCsma]_vars

\* C27: the Radio task has just won the channel for a foreground frame
C27_Witness ==
    /\ last.task = TASK_radio
    /\ HasCalled("rm2_txcsma")
    /\ sys.evt.RFA.event_no = 6
    /\ sys.mutex = SYS_MUTEX_RADIO_DATA
    /\ sys.evt.RFA.nextevent = rm2_pkt_duration(0)
    /\ radio = "tx_ff"

\* the netstate of the top session of world w
TopNetstate(w) == TopField(w, "netstate", 0)

\* what rfevt_ftx(pcode) makes of a completed foreground transmission; with
\* `error_scraps`, a TX error also ends the session with SCRAP on every path
TxCompletion(error_scraps) ==
    radio \in {"tx_ff", "stop_ftx"} /\ session /= << >> =>
        \A pcode \in {0, RM2_ERR_KILL} :
            LET w      == rfevt_ftx(World, pcode)
                scrap  == \/ dll.comm.rx_timeout = 0
                          \/ BitAnd(TopNetstate(World), M2_NETSTATE_RESPTX) /= 0
                resend == scrap /\ w.dll.comm.redundants /= 0
            IN  /\ w.sys.mutex = 0
                /\ w.sys.evt.RFA.event_no = 0
                /\ w.dll.comm.redundants = (dll.comm.redundants - 1) % 256
                /\ CallsIn(w, "platform_ot_preempt")
                /\ IF resend
                   THEN /\ CallsIn(w, "rm2_prep_resend")
                        /\ BitAnd(w.dll.comm.csmaca_params, M2_CSMACA_NOCSMA) /= 0
                        /\ TopNetstate(w) = TopNetstate(World)
                   ELSE /\ BitAnd(TopNetstate(w), M2_NETSTATE_TMASK)
                              = M2_NETSTATE_RESPRX
                        /\ (scrap \/ pcode /= 0)
                              => BitAnd(TopNetstate(w), M2_NETFLAG_SCRAP) /= 0
                        /\ BitAnd(TopNetstate(w), M2_NETFLAG_SCRAP) /= 0
                              => \/ scrap \/ pcode /= 0
                                 \/ BitAnd(TopNetstate(World), M2_NETFLAG_SCRAP) /= 0
                /\ (error_scraps /\ pcode /= 0)
                      => BitAnd(TopNetstate(w), M2_NETFLAG_SCRAP) /= 0

\* C28: on foreground TX completion (rfevt_ftx with pcode != 1) sys.mutex
\* and RFA.event_no are cleared, redundants is decremented by one and the
\* kernel is preempted; if (rx_timeout == 0 or the packet was a response)
\* and redundants remain, a resend is prepared with CSMA off and the netstate
\* is unchanged; otherwise the transfer state becomes RESPRX, with SCRAP
\* added when rx_timeout == 0, the packet was a response or pcode reports an
\* error; and a TX error (pcode != 0) always ends the session with SCRAP.
C28_TxErrorScraps == TxCompletion(TRUE)

\* C29: under RIGD the halving stops before tc reaches 0: no iteration of
\* the event manager runs sub_rigd_newslot with a resulting tc of 0, and the
\* modulus of random % tc is never zero, whatever the contention period of
\* the dialog and however many CCA attempts fail.
C29_RigdModulusNonZero ==
    (CsmaMode(World) = 0 /\ HasCalled("sub_rigd_newslot")) =>
        /\ dll.comm.tc >= 1
        /\ ~HasCalled("division_by_zero")

\* the step is an iteration of the event manager in which sysevt_initftx
\* starts a RAIND dialog whose contention window exceeds the frame
StartsRaind ==
    /\ last'.op = "sys_event_manager"
    /\ \E k \in DOMAIN last'.calls : last'.calls[k] = "sysevt_initftx"
    /\ CsmaMode(World) = 1
    /\ dll.comm.tc > rm2_pkt_duration(0)

\* dll.comm.tca as sub_fcinit() reads it in that iteration: the value the
\* previous dialog left, clocked down by sub_clock_tasks
TcaRead == sub_clock_tasks(World, last'.code).w.dll.comm.tca

\* C30: under RAIND the initial backoff that sysevt_initftx takes from
\* sub_fcinit for a dialog with contention window tc is computed from
\* tca == tc, never from the tca a previous dialog left; the modulus
\* tca - pkt_duration(frame) is strictly positive when it is evaluated, and
\* the backoff lies in [0, tc - pkt_duration(frame)).
C30_RaindBackoff ==
    [][StartsRaind =>
         /\ TcaRead = dll.comm.tc
         /\ TcaRead - rm2_pkt_duration(0) > 0
         /\ sys.evt.RFA.nextevent' >= 0
         /\ sys.evt.RFA.nextevent' < dll.comm.tc - rm2_pkt_duration(0)]_vars

\* the last step was an iteration of the event manager in which the hold
\* scan or the sleep scan fired
ScanFired ==
    /\ last.op = "sys_event_manager"
    /\ last.task \in {TASK_hold, TASK_sleep}
    /\ HasCalled("sub_scan_channel")

\* the sequence file and the idle event of the scan that fired
FiredFile ==
    IF HasCalled("sysevt_holdscan") THEN vl.hold_scan_sequence
    ELSE vl.sleep_scan_sequence

FiredEvent == IF HasCalled("sysevt_holdscan") THEN HSS ELSE SSS

\* offset of the entry that fired: the one before the cursor, which wraps
FiredEntry ==
    IF sys.evt.idle[FiredEvent].cursor = 0 THEN Len(FiredFile) - 4
    ELSE sys.evt.idle[FiredEvent].cursor - 4

FiredChannel == ByteAt(FiredFile, FiredEntry)

FiredFlags == ByteAt(FiredFile, FiredEntry + 1)

\* the state a scan firing leaves
ScanSessionPushed ==
    /\ session /= << >>
    /\ session[1].counter = 0
    /\ session[1].channel = FiredChannel
    /\ BitAnd(session[1].netstate, M2_NETSTATE_TMASK) = M2_NETSTATE_REQRX
    /\ BitAnd(session[1].netstate, M2_NETSTATE_INIT) /= 0
    /\ dll.comm.redundants = 0
    /\ dll.comm.rx_channels = 1
    /\ dll.comm.scratch[dll.comm.rx_chanlist] = FiredChannel
    /\ dll.comm.rx_timeout = otutils_calc_timeout(FiredFlags)

\* the iteration of the event manager that follows a scan firing
ScanStarted ==
    /\ last'.task = TASK_session
    /\ sys.evt.RFA.event_no' = IF BitAnd(FiredFlags, 128) /= 0 THEN 1 ELSE 2
    /\ sys.evt.RFA.nextevent' = dll.comm.rx_timeout
    /\ sys.mutex' = SYS_MUTEX_RADIO_LISTEN

\* C31: every hold or sleep scan firing pushes one ad-hoc request-RX
\* session (wait 0) on the scanned channel, with redundants = 0,
\* rx_channels = 1 and rx_timeout decoded from the entry's timeout code; the
\* iteration of the event manager that follows dispatches the Session task,
\* which starts a background scan (RFA.event_no == 1) if and only if bit 7
\* of the entry's flags is set and a foreground scan (RFA.event_no == 2)
\* otherwise, with RFA.nextevent == rx_timeout and sys.mutex == RADIO_LISTEN.
C31_ScanFiringStartsScan ==
    /\ [](ScanFired => ScanSessionPushed)
    /\ [][ScanFired' => Len(session') = Len(session) + 1]_vars
    /\ [][ScanFired /\ last'.op = "sys_event_manager" => ScanStarted]_vars

\* C31: a background scan has been started by the Session task for the
\* session that a scan firing pushed
C31_Witness ==
    /\ last.op = "sys_event_manager"
    /\ last.task = TASK_session
    /\ HasCalled("sysevt_bscan")
    /\ sys.evt.RFA.event_no = 1
    /\ sys.evt.RFA.nextevent = dll.comm.rx_timeout
    /\ sys.mutex = SYS_MUTEX_RADIO_LISTEN
    /\ dll.comm.redundants = 0
    /\ radio = "rx_bf"

\* C32: in every state in which a frame awaits processing, the Processing
\* task clears the PROCESSING bit of sys.mutex and leaves the other bits and
\* RFA as they are; with a route score >= 0 it sets dll.idle_state to HOLD
\* and hold_cycle to 0; with a negative score it leaves idle_state,
\* hold_cycle, the comm block and the depth of the session stack unchanged.
C32_ProcessingFrame ==
    BitAnd(sys.mutex, SYS_MUTEX_PROCESSING) /= 0 =>
        \A route \in Routes :
            LET w == task_processing(World, route).w
            IN  /\ w.sys.mutex = BitClear(sys.mutex, SYS_MUTEX_PROCESSING)
                /\ w.sys.evt.RFA = sys.evt.RFA
                /\ IF route.score >= 0
                   THEN /\ w.dll.idle_state = M2_MACIDLE_HOLD
                        /\ w.sys.evt.hold_cycle = 0
                   ELSE /\ w.dll.idle_state = dll.idle_state
                        /\ w.sys.evt.hold_cycle = sys.evt.hold_cycle
                        /\ w.dll.comm = dll.comm
                        /\ Len(w.session) = Len(session)

\* C32: the Processing task has just accepted a request: the session
\* answers, the device holds, the PROCESSING bit is clear
C32_Witness ==
    /\ last.op = "sys_event_manager"
    /\ last.task = TASK_processing
    /\ HasCalled("network_route_ff")
    /\ BitAnd(TopNetstate(World), M2_NETSTATE_TMASK) = M2_NETSTATE_RESPTX
    /\ dll.idle_state = M2_MACIDLE_HOLD
    /\ sys.evt.hold_cycle = 0
    /\ BitAnd(sys.mutex, SYS_MUTEX_PROCESSING) = 0

\* the route answers that accept the frame with the Listen flag set
ListenRoutes == { r \in Routes : r.score >= 0 /\ r.listen }

\* stack `after` is stack `before` with one request-RX session more, which
\* is due in `wait` ticks on `channel` and carries `subnet`
OneCloneAdded(before, after, wait, channel, subnet) ==
    /\ Len(after) = Len(before) + 1
    /\ \E k \in 1 .. Len(after) :
         /\ after[k].counter = wait
         /\ after[k].netstate = M2_NETSTATE_REQRX + M2_NETSTATE_ASSOCIATED
         /\ after[k].channel = channel
         /\ after[k].subnet = subnet
         /\ \A j \in 1 .. Len(before) :
              before[j].channel = after[IF j < k THEN j ELSE j + 1].channel

\* C33: when the Processing task accepts a frame that has the Listen flag,
\* it creates exactly one cloned request-RX session, due
\* tc - pkt_duration(TX length) ticks in the future on the response channel
\* rx_chanlist[0], with the subnet of the original session; and it never
\* uses the clone when session_new() has reported an overflow.
C33_ListenClone ==
    BitAnd(sys.mutex, SYS_MUTEX_PROCESSING) /= 0 /\ session /= << >> =>
        \A route \in ListenRoutes :
            LET w == task_processing(World, route).w
            IN  /\ ~CallsIn(w, "invalid_session")
                /\ OneCloneAdded(session, w.session,
                                 route.tc - rm2_pkt_duration(0),
                                 w.dll.comm.scratch[w.dll.comm.rx_chanlist],
                                 session[1].subnet)

\* the smallest nextevent among the enabled idle-time events, 65535 at most
EnabledEta ==
    LET S == { sys.evt.idle[i].nextevent :
                 i \in { k \in 0 .. IDLE_EVENTS - 1 : sys.evt.idle[k].event_no /= 0 } }
             \cup {65535}
    IN  CHOOSE m \in S : \A x \in S : m <= x

\* the top session is CONNECTED
TopConnected ==
    session /= << >> /\ BitAnd(session[1].netstate, M2_NETSTATE_CONNECTED) /= 0

\* C34: in every state, the Idle task returns the counter of the top session
\* if that session is CONNECTED; otherwise it returns min(ETA, 65535), ETA
\* being the smallest nextevent among the enabled idle-time events, a value
\* in 1..65535, and breaks out to the loop, changing nothing, when the ETA is
\* not positive.
C34_IdleReturn ==
    LET r == task_idle(World)
    IN  /\ r.w = World
        /\ IF TopConnected THEN r.ret = session[1].counter
           ELSE IF EnabledEta <= 0 THEN r = Loops(World)
           ELSE r.ret = EnabledEta /\ r.ret \in 1 .. 65535

\* C34: the event manager has returned from the Idle task the time to the
\* next enabled event, while a disabled event holds an earlier time
C34_Witness ==
    /\ last.op = "sys_event_manager"
    /\ last.task = TASK_idle
    /\ ~TopConnected
    /\ last.ret = EnabledEta
    /\ last.ret \in 1 .. 65534
    /\ \E i \in 0 .. IDLE_EVENTS - 1 :
         sys.evt.idle[i].event_no = 0 /\ sys.evt.idle[i].nextevent < last.ret

\* how many times `name` is called in world w
CallCount(w, name) == Cardinality({ k \in DOMAIN w.calls : w.calls[k] = name })

MaxInterval == 3

\* the devices of Spec with scan sequences of `n` ticks between two scans
InitIdle ==
    \E d \in Devices, n \in 1 .. MaxInterval :
        LET files == [ ConfigFiles(d) EXCEPT
                         !.hold_scan_sequence  = << 16, 1, 0, n,   16, 129, 0, n >>,
                         !.sleep_scan_sequence = << 16, 129, 0, n,   16, 1, 0, n >> ]
            w == sys_init([ sys |-> ZeroSys, dll |-> ZeroDll, session |-> << >>,
                            radio |-> "idle", vl |-> files, hold_scans |-> 0,
                            calls |-> << >> ])
        IN  /\ sys        = w.sys
            /\ dll        = w.dll
            /\ session    = w.session
            /\ radio      = w.radio
            /\ vl         = w.vl
            /\ hold_scans = w.hold_scans
            /\ events     = d.events
            /\ panicked   = FALSE
            /\ last       = [ op |-> "sys_init", code |-> 0, task |-> 0 - 1,
                              due |-> {}, ret |-> 0 - 1, calls |-> w.calls ]

NextIdle == EventManager \/ RfBscan \/ RfFrx \/ RfFtx

SpecIdle == InitIdle /\ [][NextIdle]_vars

\* C36: a sleep duration that sys_event_manager returns from the Idle task
\* is never longer than the counter of a top session that is still waiting
\* (counter above 0)
C36_IdleWithinSession ==
    /\ last.op = "sys_event_manager"
    /\ last.task = TASK_idle
    /\ last.ret >= 1
    /\ session /= << >>
    /\ session[1].counter > 0
    => last.ret <= session[1].counter

(***************************************************************************)
(* The Processing task with the radio interrupt between its statements.    *)
(* The task runs in the main loop, rfevt_frx in interrupt context: the     *)
(* callback can run after the body of the task and before its last         *)
(* statement, which clears SYS_MUTEX_PROCESSING.  last.code counts the     *)
(* good frames that rfevt_frx has accepted since the task began.           *)
(***************************************************************************)
\* the main loop is inside the Processing task, before its last statement
MidTask == last.op = "TASK_processing"

\* an iteration of the event manager that runs another task
RaceManager ==
    /\ ~MidTask
    /\ \E elapsed \in Elapsed :
         /\ sub_clock_tasks(World, elapsed).output /= TASK_processing
         /\ EventManagerAfter(elapsed)

\* the event manager enters the Processing task and runs its body
ProcessingBegins ==
    /\ ~MidTask
    /\ \E elapsed \in Elapsed, route \in Routes :
         LET c == sub_clock_tasks(World, elapsed)
         IN  /\ c.output = TASK_processing
             /\ Commit(task_processing_body(c.w, route), "TASK_processing", 0,
                       [ task |-> TASK_processing, due |-> DueTasks(c.w),
                         ret |-> 0 - 1 ])

\* the driver delivers a frame while the main loop is inside the task
FrxInTask ==
    /\ MidTask
    /\ radio = "rx_ff"
    /\ \E pcode \in {0, 1}, fcode \in {0, 0 - 1}, frame \in Frames :
         LET w == rfevt_frx(World, pcode, fcode, frame)
             accepted == pcode = 0 /\ GoodFrame(fcode, frame)
         IN  /\ events'     = events - 1
             /\ events'     >= 0
             /\ sys'        = w.sys
             /\ dll'        = w.dll
             /\ session'    = w.session
             /\ radio'      = w.radio
             /\ vl'         = w.vl
             /\ hold_scans' = w.hold_scans
             /\ panicked'   = panicked
             /\ last'       = [last EXCEPT
                                 !.code = @ + (IF accepted THEN 1 ELSE 0)]

\* the last statement of the task, and the end of the iteration
ProcessingEnds ==
    /\ MidTask
    /\ sys'  = task_processing_clear(World).sys
    /\ last' = [last EXCEPT !.op = "TASK_processing_end"]
    /\ UNCHANGED << dll, session, radio, vl, events, hold_scans, panicked >>

NextRace ==
    \/ RaceManager
    \/ ProcessingBegins
    \/ FrxInTask
    \/ ProcessingEnds
    \/ ~MidTask /\ RfBscan
    \/ ~MidTask /\ RfFrx
    \/ ~MidTask /\ RfFtx

\* how many frames the driver delivers in a behaviour
MaxFrames == 2

\* a device that has opened a request dialog
InitRace ==
    \E d \in Devices, T \in 1 .. MaxDialogTc :
        LET w0 == sys_init([ sys |-> ZeroSys, dll |-> ZeroDll, session |-> << >>,
                             radio |-> "idle", vl |-> ConfigFiles(d),
                             hold_scans |-> 0, calls |-> << >> ])
            w  == otapi_new_session(w0, [ channel |-> 16, timeout |-> T ])
        IN  /\ sys        = w.sys
            /\ dll        = w.dll
            /\ session    = w.session
            /\ radio      = w.radio
            /\ vl         = w.vl
            /\ hold_scans = 0
            /\ events     = MaxFrames
            /\ panicked   = FALSE
            /\ last       = [ op |-> "otapi_new_session", code |-> T,
                              task |-> 0 - 1, due |-> {}, ret |-> 0 - 1,
                              calls |-> w.calls ]

SpecRace == InitRace /\ [][NextRace]_vars

\* C37: when the Processing task ends, a PROCESSING request that rfevt_frx
\* raised for a good frame after the task began is still pending: the bit
\* is set, so that the frame gets a dispatch of its own.
C37_NoRequestErased ==
    last.op = "TASK_processing_end" /\ last.code > 0 =>
        BitAnd(sys.mutex, SYS_MUTEX_PROCESSING) /= 0

\* a frame addressed to the device has been processed and the device has not
\* gone idle since: idle_state is HOLD and the hold scan event is still off
PendingHold ==
    /\ dll.idle_state = M2_MACIDLE_HOLD
    /\ sys.evt.idle[HSS].event_no = 0

\* the device is in hold: hold scans enabled, sleep scans disabled
InHold ==
    /\ sys.evt.idle[HSS].event_no /= 0
    /\ sys.evt.idle[SSS].event_no = 0

\* the step is an iteration of the event manager or a radio callback
KernelStep ==
    last'.op \in {"sys_event_manager", "rfevt_bscan", "rfevt_frx", "rfevt_ftx",
                  "rfevt_btx"}

\* C38: from the processing of a frame addressed to the device (idle_state
\* HOLD, hold not yet entered), every step of the kernel that does not call
\* sys_idle leaves idle_state HOLD, and the step that calls sys_idle ends in
\* hold (HSS enabled, SSS disabled).
C38_HoldAfterProcessing ==
    [][ PendingHold /\ KernelStep =>
          IF \E i \in DOMAIN last'.calls : last'.calls[i] = "sys_idle"
          THEN InHold'
          ELSE PendingHold' ]_vars

\* C39: every completion of a packet TX that rfevt_ftx handles leaves
\* dll.comm.redundants one less than before and not below 0.
C39_RedundantsNeverWrap ==
    [][ last'.op = "rfevt_ftx" /\ last'.code /= 1 =>
          /\ dll'.comm.redundants = dll.comm.redundants - 1
          /\ dll'.comm.redundants >= 0 ]_vars

(***************************************************************************)
(* The build with M2_FEATURE(RTC_SCHEDULER), RTCSLEEP, RTCHOLD and         *)
(* RTCBEACON enabled.  sub_sys_flush() is the only writer of the sched_id  *)
(* of the idle-time events and derives them from dll.netconf.active, so    *)
(* sched_id is a function of the settings.                                 *)
(***************************************************************************)
M2_SET_BEACONSCHED == 32
M2_SET_SLEEPSCHED  == 64
M2_SET_HOLDSCHED   == 128

\* sys.evt.idle[i].sched_id as sub_sys_flush() accumulates it
sched_id(w, i) ==
    LET on(bit) == IF BitAnd(w.dll.netconf.active, bit) /= 0 THEN 1 ELSE 0
    IN  CASE i = SSS -> on(M2_SET_SLEEPSCHED)
          [] i = HSS -> on(M2_SET_SLEEPSCHED) + on(M2_SET_HOLDSCHED)
          [] OTHER   -> on(M2_SET_SLEEPSCHED) + on(M2_SET_HOLDSCHED)
                            + on(M2_SET_BEACONSCHED)

\* sub_idlevt_ctrl(&sys.evt.idle[i], &eta, ...): yields the world and the eta
sub_idlevt_ctrl(w, i, eta) ==
    LET w1 == IF sched_id(w, i) /= 0
              THEN [Called(w, "platform_set_rtc_alarm") EXCEPT
                      !.sys.evt.idle[i].cursor    = 0,
                      !.sys.evt.idle[i].nextevent = 0]
              ELSE w
    IN  [ w   |-> w1,
          eta |-> IF w1.sys.evt.idle[i].nextevent < eta
                  THEN w1.sys.evt.idle[i].nextevent ELSE eta ]

\* the loop of sub_next_event() from event i down to event 0
RECURSIVE NextEventCtrl(_, _, _)
NextEventCtrl(w, i, eta) ==
    IF i < 0 THEN [ w |-> w, eta |-> eta ]
    ELSE IF w.sys.evt.idle[i].event_no /= 0
         THEN LET r == sub_idlevt_ctrl(w, i, eta)
              IN  NextEventCtrl(r.w, i - 1, r.eta)
         ELSE NextEventCtrl(w, i - 1, eta)

\* the Idle task of this build
task_idle_rtc(w) ==
    IF /\ session_count(w) >= 0
       /\ BitAnd(TopField(w, "netstate", 0), M2_NETSTATE_CONNECTED) /= 0
    THEN [ w |-> w, ret |-> TopField(w, "counter", 0) ]
    ELSE LET r == NextEventCtrl(w, IDLE_EVENTS - 1, 65535)
         IN  IF r.eta <= 0 THEN Loops(r.w) ELSE [ w |-> r.w, ret |-> r.eta ]

\* one iteration of the loop of sys_event_manager() in this build
EventManagerRtc ==
    \E elapsed \in Elapsed :
        LET c == sub_clock_tasks(World, elapsed)
        IN  /\ c.output = TASK_hold => sys.evt.hold_cycle < MaxHoldCycle
            /\ \E in \in Answers(c.output, c.w) :
                 LET r == IF c.output = TASK_idle THEN task_idle_rtc(c.w)
                          ELSE RunTask(c.output, c.w, in)
                 IN  Commit(r.w, "sys_event_manager", elapsed,
                            [ task |-> c.output, due |-> DueTasks(c.w),
                              ret |-> r.ret ])

\* the schedules that the settings of a device can bind to RTC alarms
Schedules == {0, M2_SET_SLEEPSCHED, M2_SET_HOLDSCHED, M2_SET_BEACONSCHED}

InitRtc ==
    \E d \in Devices, schedule \in Schedules :
        LET files == [ ConfigFiles(d) EXCEPT
                         !.network_settings =
                             NetworkSettingsISF(d.active + schedule, d.b_attempts,
                                                d.hold_limit, 0) ]
            w == sys_init([ sys |-> ZeroSys, dll |-> ZeroDll, session |-> << >>,
                            radio |-> "idle", vl |-> files, hold_scans |-> 0,
                            calls |-> << >> ])
        IN  /\ sys        = w.sys
            /\ dll        = w.dll
            /\ session    = w.session
            /\ radio      = w.radio
            /\ vl         = w.vl
            /\ hold_scans = w.hold_scans
            /\ events     = 0
            /\ panicked   = FALSE
            /\ last       = [ op |-> "sys_init", code |-> 0, task |-> 0 - 1,
                              due |-> {}, ret |-> 0 - 1, calls |-> w.calls ]

NextRtc == EventManagerRtc \/ RfBscan \/ RfFrx \/ RfFtx

SpecRtc == InitRtc /\ [][NextRtc]_vars

\* the driver delivers the end of every scan and of every transmission
LiveRtc ==
    /\ SpecRtc
    /\ WF_vars(RfBscan)
    /\ WF_vars(RfFrx)
    /\ WF_vars(RfFtx /\ last'.code /= 1)

\* no radio activity, no processing request and no ready session is pending
Quiet ==
    /\ sys.evt.RFA.event_no = 0
    /\ BitAnd(sys.mutex, SYS_MUTEX_PROCESSING) = 0
    /\ ~session_ready(World, 0)

\* the event manager has returned a sleep duration to its caller
Returned == last.op = "sys_event_manager" /\ last.ret >= 1

\* the step is an iteration of the event manager
Iterates == last'.op = "sys_event_manager"

\* C40: if the event manager keeps iterating and, from some point on, its
\* iterations take no time (no tick passes between them), then from every
\* state without radio activity, processing request or ready session the
\* event manager eventually returns a sleep duration to its caller, also on
\* the devices whose enabled idle-time events are bound to an RTC alarm.
C40_EventuallySleeps ==
    []<><<Iterates>>_vars => ([]<><<Tick>>_vars \/ (Quiet ~> Returned))

=============================================================================
